---- MODULE Spec2Model ----
(***************************************************************************)
(* Wissellijst V3: rotating curated playlists.                             *)
(*                                                                         *)
(* One rotation list (wissellijst) is modelled: its live list (the Spotify *)
(* playlist), its History file, its Queue file, and the executions of      *)
(* initial_fill / initial_fill_discovery / rotate_and_regenerate on it.    *)
(* External collaborators (Spotify catalog, the suggestion and scoring     *)
(* oracles, the source playlists) are inputs chosen with \E in the actions.*)
(***************************************************************************)
EXTENDS Integers, Sequences, FiniteSets, TLC

(***************************************************************************)
(* Bounds of the model.                                                    *)
(***************************************************************************)
NumTracks == 5
NumSuggested == 3
MaxHistory == 5
MaxLines == 1
GenLines == 2
MaxSourceLen == 1
MaxTicks == 1
MaxThreads == 1
MaxFaults == 1
MaxBlokken == 2
MaxBlokGrootte == 1
TickDays == 30
LongStaleAge == 60
MaxLive == 2

(***************************************************************************)
(* Program constants.                                                      *)
(***************************************************************************)
max_retries == 3
max_reasks == 2
max_days == 30
RotatePageLimit == 50
BlockPageLimit == 100
ExcludeHistoryWindow == 50
RecentDays == 90
NeutralScore == 5
MaxOverlapBonus == 5
DefaultBlokGrootte == 10
ReasonsPerCategory == 5

(***************************************************************************)
(* The catalog: tracks, their artists and release dates.  A track's URI    *)
(* and its name are both its number.  A release date is the sequence of    *)
(* the "-"-separated parts of Spotify's string: <<y>>, <<y,m>>, <<y,m,d>>, *)
(* or <<>> for a missing date.                                             *)
(***************************************************************************)
Tracks == 1..NumTracks
NumArtists == 2
Artists == 1..NumArtists
ArtistOf(t) == ((t - 1) % NumArtists) + 1
\* Two more tracks of the catalog: one whose album has no release date, one
\* whose release date does not start with a year
Undated == NumTracks + 1
Misdated == NumTracks + 2

ReleaseOf(t) ==
    CASE t = Undated -> <<>>
      [] t = Misdated -> <<-1>>
      [] t % 5 = 1 -> <<2015>>
      [] t % 5 = 2 -> <<2026, 10>>
      [] t % 5 = 3 -> <<2026, 10, 20>>
      [] t % 5 = 4 -> <<2018, 5>>
      [] OTHER     -> <<2026, 9, 15>>

None == "None"

Min(a, b) == IF a <= b THEN a ELSE b
Max(a, b) == IF a >= b THEN a ELSE b

Range(s) == {s[i] : i \in 1..Len(s)}

\* s[:n] of Python
Take(s, n) == SubSeq(s, 1, Min(n, Len(s)))

\* s[-n:] of Python
LastN(s, n) == SubSeq(s, Max(1, Len(s) - n + 1), Len(s))

RECURSIVE SelectSeqBy(_, _)
\* [x for x in s if x in keep]
SelectSeqBy(s, keep) ==
    IF s = <<>> THEN <<>>
    ELSE IF Head(s) \in keep THEN <<Head(s)>> \o SelectSeqBy(Tail(s), keep)
    ELSE SelectSeqBy(Tail(s), keep)

(***************************************************************************)
(* Decades.                                                                *)
(***************************************************************************)
DecadeNames == <<"00s", "10s", "20s", "30s", "40s", "50s", "60s", "70s", "80s", "90s">>

\* f"{str((year // 10) * 10)[2:]}s" for a four-digit year
DecadeOfYear(year) == DecadeNames[((year \div 10) % 10) + 1]

\* automation.get_decade: "Unknown" when the year cannot be parsed
get_decade(release_date) ==
    IF release_date = <<>> \/ release_date[1] < 0 THEN "Unknown"
    ELSE DecadeOfYear(release_date[1])

\* A check that rejects a release date it cannot read
ValidateDecadeStrict(release_date, expected_decade) ==
    IF expected_decade = None THEN TRUE
    ELSE IF release_date = <<>> THEN FALSE
    ELSE IF release_date[1] < 0 THEN FALSE
    ELSE DecadeOfYear(release_date[1]) = expected_decade

\* suggest._get_decade / the computation inside validate_decade
validate_decade(release_date, expected_decade) ==
    IF expected_decade = None \/ release_date = <<>> THEN TRUE
    ELSE IF release_date[1] < 0 THEN TRUE
    ELSE DecadeOfYear(release_date[1]) = expected_decade

\* A category label is a sequence of tokens; re.match(r'(\d{2}s)', category)
\* matches when the label starts with a decade token.
_extract_decade(category) ==
    IF category # <<>> /\ Head(category) \in Range(DecadeNames)
    THEN Head(category) ELSE None

(***************************************************************************)
(* State.                                                                  *)
(*   wl        the list's configuration (a wissellijst dict)               *)
(*   playlist  the live list: Spotify playlist items [uri, added_at]       *)
(*   historie  the History file: a sequence of entry lines                 *)
(*   wachtrij  the Queue file: [exists, lines]                             *)
(*   now       the clock, in days                                          *)
(*   ticks     how often the clock has advanced                            *)
(*   faults    how many calls to Spotify have raised so far                *)
(*   pc        where the one execution in progress stands                  *)
(*   loc       its local variables                                         *)
(*   result    the dict the last finished operation returned               *)
(*   pre       History, Queue and live list as the last rotate_playlist    *)
(*             call found them, and the mode it ran in                     *)
(*   gen       what the last generate_block call evaluated                 *)
(*   runs      the rotate_and_regenerate executions the callers started    *)
(***************************************************************************)
VARIABLES wl, playlist, historie, wachtrij, now, ticks, faults, pc, loc, result, pre,
          gen, runs

vars == <<wl, playlist, historie, wachtrij, now, ticks, faults, pc, loc, result, pre, gen,
          runs>>

Entry(categorie, artiest, titel, uri) ==
    [categorie |-> categorie, artiest |-> artiest, titel |-> titel, uri |-> uri]

\* An absent "added_at" of a playlist item
NoTime == -1

\* A queue line that holds no spotify: URI
NoUri == 0

Item(uri, added_at) == [uri |-> uri, added_at |-> added_at]

\* f"{t['categorie']} - {t['artiest']} - {t['titel']} - {t['uri']}\n" per entry
WriteLines(block) == [exists |-> TRUE, lines |-> block]

UrisOf(entries) == [i \in 1..Len(entries) |-> entries[i].uri]

(***************************************************************************)
(* rotate_playlist                                                         *)
(***************************************************************************)
\* An "added_at" that is present but null, and one that is the empty string
NullTime == NoTime - 1
EmptyTime == NoTime - 2

\* The item carries a timestamp
Known(item) == item.added_at >= 0

\* The sort key of rotate_playlist: x.get("added_at", "9999"); the empty
\* string is smaller than every timestamp
AgeKey(item) ==
    IF item.added_at = NoTime THEN 99999999
    ELSE IF item.added_at = EmptyTime THEN -1
    ELSE item.added_at

\* list.sort raises TypeError when it compares a null key with another key
SortRaises(items) ==
    Len(items) >= 2 /\ \E i \in 1..Len(items) : items[i].added_at = NullTime

RECURSIVE InsertByAge(_, _)
InsertByAge(sorted, item) ==
    IF sorted = <<>> THEN <<item>>
    ELSE IF AgeKey(item) < AgeKey(Head(sorted)) THEN <<item>> \o sorted
    ELSE <<Head(sorted)>> \o InsertByAge(Tail(sorted), item)

RECURSIVE SortByAge(_)
\* list.sort(key=added_at): stable, oldest first
SortByAge(items) ==
    IF items = <<>> THEN <<>>
    ELSE InsertByAge(SortByAge(SubSeq(items, 1, Len(items) - 1)), items[Len(items)])

\* The lines of the queue file that yield a URI
ReadQueueUris(q) ==
    LET withUri == SelectSeq(q.lines, LAMBDA e : e.uri # NoUri)
    IN  UrisOf(withUri)

\* hf.write(f"{decade} - {artist} - {name} - {uri}\n")
EvictedEntry(item) ==
    Entry(<<get_decade(ReleaseOf(item.uri))>>, ArtistOf(item.uri), item.uri, item.uri)

\* sp.playlist_remove_all_occurrences_of_items
RemoveAllOccurrences(items, uris) ==
    SelectSeq(items, LAMBDA it : it.uri \notin Range(uris))

\* sp.playlist_add_items: appended, stamped with the current time
AddItems(items, uris, t) ==
    items \o [i \in 1..Len(uris) |-> Item(uris[i], t)]

CurrentItems(pl, sort_by_age) ==
    IF sort_by_age THEN SortByAge(pl) ELSE Take(pl, RotatePageLimit)

\* The members rotate_playlist logs to History and removes
EvictionSet(pl, block_size, sort_by_age) ==
    Take(CurrentItems(pl, sort_by_age), block_size)

\* A rotate_playlist that opens the queue file for writing on every path
RotateOutcomeTouching(status, pl, h, q, verwijderd, toegevoegd, gone) ==
    [status |-> status, playlist |-> pl, historie |-> h,
     wachtrij |-> [exists |-> TRUE, lines |-> q.lines],
     verwijderd |-> verwijderd, toegevoegd |-> toegevoegd, gone |-> gone]

\* What a call leaves behind and returns; gone is the number of members the
\* live list lost
RotateOutcome(status, pl, h, q, verwijderd, toegevoegd, gone) ==
    [status |-> status, playlist |-> pl, historie |-> h, wachtrij |-> q,
     verwijderd |-> verwijderd, toegevoegd |-> toegevoegd, gone |-> gone]

\* fail names the Spotify call that raises: "none", "read", "remove" or "add"
rotate_playlist(pl, q, h, sort_by_age, t, fail) ==
    LET new_uris == ReadQueueUris(q)
        block_size == Len(new_uris)
        victims == EvictionSet(pl, block_size, sort_by_age)
        h1 == h \o [i \in 1..Len(victims) |-> EvictedEntry(victims[i])]
        tracks_to_remove == UrisOf(victims)
        removed == RemoveAllOccurrences(pl, tracks_to_remove)
        gone == Len(pl) - Len(removed)
        cleared == [exists |-> TRUE, lines |-> <<>>]
    IN  IF ~q.exists \/ q.lines = <<>> THEN RotateOutcome("leeg", pl, h, q, 0, 0, 0)
        ELSE IF new_uris = <<>> THEN RotateOutcome("leeg", pl, h, q, 0, 0, 0)
        ELSE IF fail = "read" \/ (sort_by_age /\ SortRaises(pl))
             THEN RotateOutcome("exception", pl, h, q, 0, 0, 0)
        ELSE IF tracks_to_remove = <<>>
             THEN RotateOutcome("ok", pl, h1, cleared, 0, Len(new_uris), 0)
        ELSE IF fail = "remove" THEN RotateOutcome("exception", pl, h1, q, 0, 0, 0)
        ELSE IF fail = "add" THEN RotateOutcome("exception", removed, h1, q, 0, 0, gone)
        ELSE RotateOutcome("ok", AddItems(removed, new_uris, t), h1, cleared,
                           Len(tracks_to_remove), Len(new_uris), gone)

(***************************************************************************)
(* Category mode: the validation pipeline and generate_block               *)
(***************************************************************************)
\* str.lower() on the tokens of a label
LowerTok(tok) ==
    CASE tok = "POP" -> "pop"
      [] tok = "Pop" -> "pop"
      [] OTHER -> tok

Lower(label) == [i \in 1..Len(label) |-> LowerTok(label[i])]

\* A leading enumeration such as "1." or "2)"
NumberingTokens == {"1.", "2.", "3.", "1)", "2)", "3)"}

\* re.sub(r'^\d+[\.\)]\s*', '', raw_lower)
StripNumbering(label) ==
    IF label # <<>> /\ Head(label) \in NumberingTokens THEN Tail(label) ELSE label

\* a in b, for labels
Contains(b, a) ==
    \E i \in 0..(Len(b) - Len(a)) : SubSeq(b, i + 1, i + Len(a)) = a

CategoryMatches(cat, raw_cat) ==
    LET raw_lower == Lower(raw_cat)
        raw_clean == StripNumbering(raw_lower)
        cat_lower == Lower(cat)
    IN  \/ cat_lower = raw_clean
        \/ cat_lower = raw_lower
        \/ Contains(raw_clean, cat_lower)
        \/ Contains(cat_lower, raw_clean)

\* The None of _match_categorie: no label (every configured label has a token)
NoCategory == <<>>

\* A match that does not pass over the categories already filled
MatchAnyCategory(raw_cat, categorieen, filled) ==
    LET hits == {i \in 1..Len(categorieen) : CategoryMatches(categorieen[i], raw_cat)}
    IN  IF hits = {} THEN NoCategory
        ELSE categorieen[CHOOSE i \in hits : \A j \in hits : i <= j]

\* The first configured category, not yet filled, that matches; None otherwise
_match_categorie(raw_cat, categorieen, filled) ==
    LET hits == {i \in 1..Len(categorieen) :
                    /\ categorieen[i] \notin DOMAIN filled
                    /\ CategoryMatches(categorieen[i], raw_cat)}
    IN  IF hits = {} THEN NoCategory
        ELSE categorieen[CHOOSE i \in hits : \A j \in hits : i <= j]

\* A limit that lets a performer at the maximum through once more
ArtistLimitInclusive(artist, artist_counts, max_per_artiest) ==
    IF max_per_artiest <= 0 THEN TRUE
    ELSE artist_counts[artist] <= max_per_artiest

validate_artist_limit(artist, artist_counts, max_per_artiest) ==
    IF max_per_artiest <= 0 THEN TRUE
    ELSE artist_counts[artist] < max_per_artiest

validate_history(candidate_uri, history_uris) == candidate_uri \notin history_uris

\* Spotify's answer to search_spotify(artist, title): the track of that name by
\* that artist, or nothing (uri = NoUri stands for None)
search_spotify(artist, title) ==
    IF title \in Tracks \cup {Undated, Misdated} /\ ArtistOf(title) = artist
    THEN [uri |-> title, release_date |-> ReleaseOf(title)]
    ELSE [uri |-> NoUri, release_date |-> <<>>]

\* A skip that records its reason twice
SkipTwice(ctx, cat, artist, title, cause) ==
    LET reason == [artiest |-> artist, titel |-> title, reden |-> cause]
        old == IF cat \in DOMAIN ctx.skipped THEN ctx.skipped[cat] ELSE <<>>
    IN  [ctx EXCEPT !.skipped = (cat :> (old \o <<reason, reason>>)) @@ ctx.skipped]

\* skipped.setdefault(matched_cat, []).append(reason)
Skip(ctx, cat, artist, title, cause) ==
    LET reason == [artiest |-> artist, titel |-> title, reden |-> cause]
        old == IF cat \in DOMAIN ctx.skipped THEN ctx.skipped[cat] ELSE <<>>
    IN  [ctx EXCEPT !.skipped = (cat :> Append(old, reason)) @@ ctx.skipped]

\* One iteration of the loop of _process_suggestions.  A line is the sequence
\* of its "|"-separated parts.
ProcessLine(ctx, line, categorieen, max_per_artiest) ==
    IF Len(line) < 3 THEN ctx
    ELSE
    LET raw_cat == line[1]
        artist == line[2]
        title == line[3]
        matched_cat == _match_categorie(raw_cat, categorieen, ctx.filled)
        found == search_spotify(artist, title)
        expected_decade == _extract_decade(matched_cat)
        searched == [ctx EXCEPT !.lookups = @ + 1]
    IN  IF matched_cat = NoCategory THEN ctx
        ELSE IF ~validate_artist_limit(artist, ctx.artist_counts, max_per_artiest)
             THEN Skip(ctx, matched_cat, artist, title, "artiest op max")
        ELSE IF found.uri = NoUri
             THEN Skip(searched, matched_cat, artist, title, "niet op Spotify")
        ELSE IF ~validate_history(found.uri, ctx.used_uris)
             THEN Skip(searched, matched_cat, artist, title, "al in historie")
        ELSE IF expected_decade # None
                /\ ~validate_decade(found.release_date, expected_decade)
             THEN Skip(searched, matched_cat, artist, title, "decade mismatch")
        ELSE [searched EXCEPT
                !.filled = (matched_cat :> Entry(matched_cat, artist, title, found.uri))
                           @@ ctx.filled,
                !.used_uris = @ \cup {found.uri},
                !.artist_counts[artist] = @ + 1]

RECURSIVE _process_suggestions(_, _, _, _)
\* Stops at the line that fills the last category (the break)
_process_suggestions(raw_suggestions, categorieen, ctx, max_per_artiest) ==
    IF raw_suggestions = <<>> THEN ctx
    ELSE LET next == ProcessLine(ctx, Head(raw_suggestions), categorieen, max_per_artiest)
         IN  IF next.filled # ctx.filled
                /\ Cardinality(DOMAIN next.filled) = Len(categorieen)
             THEN next
             ELSE _process_suggestions(Tail(raw_suggestions), categorieen, next,
                                       max_per_artiest)

\* load_history plus the counting of the active artists
RECURSIVE CountArtists(_, _)
CountArtists(artists, counts) ==
    IF artists = <<>> THEN counts
    ELSE CountArtists(Tail(artists), [counts EXCEPT ![Head(artists)] = @ + 1])

SuggestedArtists == 0..NumArtists

load_history(h) ==
    LET artists == [i \in 1..Len(h) |-> h[i].artiest]
    IN  [artists |-> artists,
         uris |-> UrisOf(h),
         artist_counts |-> CountArtists(artists, [a \in SuggestedArtists |-> 0])]

BlockedArtists(artist_counts, max_per_artiest) ==
    IF max_per_artiest > 0
    THEN {a \in DOMAIN artist_counts : artist_counts[a] >= max_per_artiest}
    ELSE {}

\* int(total * 0.8)
PartialThreshold(total) == Max(1, (total * 8) \div 10)

\* What generate_block returns for the filled categories
EvaluateBlock(categorieen, filled) ==
    LET total == Len(categorieen)
        filled_count == Cardinality(DOMAIN filled)
        kept == SelectSeqBy(categorieen, DOMAIN filled)
        block == [i \in 1..Len(kept) |-> filled[kept[i]]]
    IN  IF filled_count = total THEN [kind |-> "complete", block |-> block]
        ELSE IF filled_count >= PartialThreshold(total)
             THEN [kind |-> "partial", block |-> block]
        ELSE [kind |-> "rejected", block |-> <<>>]

\* A prompt that quotes the latest reasons instead of the first
PassedLatest(reasons) == LastN(reasons, ReasonsPerCategory)

\* "; ".join(reasons[:5]): the reasons of a category quoted in the prompt
PassedReasons(reasons) == Take(reasons, ReasonsPerCategory)

RECURSIVE ReaskAlways(_, _, _, _, _)
\* A re-ask loop that asks again although nothing is missing
ReaskAlways(answers, reask, categorieen, ctx, max_per_artiest) ==
    LET missing == SelectSeqBy(categorieen,
                               Range(categorieen) \ DOMAIN ctx.filled)
        asked == [missing |-> missing,
                  skipped |-> [c \in (DOMAIN ctx.skipped) \cap Range(missing) |->
                                  PassedReasons(ctx.skipped[c])],
                  blocked |-> BlockedArtists(ctx.artist_counts, max_per_artiest),
                  filled |-> DOMAIN ctx.filled, recorded |-> ctx.skipped,
                  counts |-> ctx.artist_counts]
        extra_suggestions == IF answers = <<>> THEN <<>> ELSE Head(answers)
        rest == IF answers = <<>> THEN <<>> ELSE Tail(answers)
        ctx1 == [ctx EXCEPT !.calls = @ + 1, !.reasks = Append(@, asked)]
    IN  IF reask = 0 THEN ctx
        ELSE IF extra_suggestions = <<>>
             THEN ReaskAlways(rest, reask - 1, categorieen, ctx1, max_per_artiest)
        ELSE ReaskAlways(rest, reask - 1, categorieen,
                         _process_suggestions(extra_suggestions, categorieen, ctx1,
                                              max_per_artiest),
                         max_per_artiest)

RECURSIVE ReaskRounds(_, _, _, _, _)
\* The re-ask loop: answers holds the oracle's answers to the re-asks still to
\* come, reask the number of iterations left
ReaskRounds(answers, reask, categorieen, ctx, max_per_artiest) ==
    LET missing == SelectSeqBy(categorieen,
                               Range(categorieen) \ DOMAIN ctx.filled)
        asked == [missing |-> missing,
                  skipped |-> [c \in (DOMAIN ctx.skipped) \cap Range(missing) |->
                                  PassedReasons(ctx.skipped[c])],
                  blocked |-> BlockedArtists(ctx.artist_counts, max_per_artiest),
                  filled |-> DOMAIN ctx.filled, recorded |-> ctx.skipped,
                  counts |-> ctx.artist_counts]
        extra_suggestions == IF answers = <<>> THEN <<>> ELSE Head(answers)
        rest == IF answers = <<>> THEN <<>> ELSE Tail(answers)
        ctx1 == [ctx EXCEPT !.calls = @ + 1, !.reasks = Append(@, asked)]
    IN  IF reask = 0 \/ missing = <<>> THEN ctx
        ELSE IF extra_suggestions = <<>>
             THEN ReaskRounds(rest, reask - 1, categorieen, ctx1, max_per_artiest)
        ELSE ReaskRounds(rest, reask - 1, categorieen,
                         _process_suggestions(extra_suggestions, categorieen, ctx1,
                                              max_per_artiest),
                         max_per_artiest)

\* What generate_block has in hand before the first round: the identifiers
\* of History, the counters of History and live list, no category filled
BlockContext(pl, h, max_per_artiest) ==
    LET current_tracks == Take(pl, BlockPageLimit)
        active_artists == [i \in 1..Len(current_tracks) |-> ArtistOf(current_tracks[i].uri)]
        hist == load_history(h)
        artist_counts == CountArtists(active_artists, hist.artist_counts)
        exclude == Range(active_artists)
                       \cup Range(LastN(hist.artists, ExcludeHistoryWindow))
    IN  [filled |-> <<>>, skipped |-> <<>>, used_uris |-> Range(hist.uris),
         artist_counts |-> artist_counts, calls |-> 1, reasks |-> <<>>,
         lookups |-> 0, exclude |-> exclude,
         blocked |-> BlockedArtists(artist_counts, max_per_artiest)]

\* What generate_block returns and has done, given the state after the last
\* round
BlockResult(categorieen, ctx) ==
    LET verdict == EvaluateBlock(categorieen, ctx.filled)
    IN  [kind |-> verdict.kind, block |-> verdict.block, total |-> Len(categorieen),
         filled |-> Cardinality(DOMAIN ctx.filled), calls |-> ctx.calls,
         reasks |-> ctx.reasks, items_ok |-> TRUE]

\* script holds the oracle's answers, round by round; items_ok is FALSE when
\* sp.playlist_items raises
generate_block(pl, h, categorieen, max_per_artiest, script, items_ok) ==
    LET ctx0 == BlockContext(pl, h, max_per_artiest)
        raw_suggestions == IF script = <<>> THEN <<>> ELSE Head(script)
        ctx1 == _process_suggestions(raw_suggestions, categorieen, ctx0, max_per_artiest)
        ctx2 == ReaskRounds(IF script = <<>> THEN <<>> ELSE Tail(script), max_reasks,
                            categorieen, ctx1, max_per_artiest)
    IN  IF ~items_ok
        THEN [kind |-> "rejected", block |-> <<>>, total |-> Len(categorieen),
              filled |-> 0, calls |-> 0, reasks |-> <<>>, items_ok |-> FALSE]
        ELSE CHOOSE g \in {BlockResult(categorieen, ctx) : ctx \in {ctx2}} : TRUE

(***************************************************************************)
(* Dates                                                                   *)
(***************************************************************************)
\* The day number of a civil date (days since 1970-01-01)
DaysFromCivil(y, m, d) ==
    LET yy == IF m <= 2 THEN y - 1 ELSE y
        era == yy \div 400
        yoe == yy - era * 400
        mp == IF m > 2 THEN m - 3 ELSE m + 9
        doy == (153 * mp + 2) \div 5 + d - 1
        doe == yoe * 365 + yoe \div 4 - yoe \div 100 + doy
    IN  era * 146097 + doe - 719468

IsLeap(y) == (y % 4 = 0 /\ y % 100 # 0) \/ y % 400 = 0

DaysInMonth(y, m) ==
    IF m = 2 THEN (IF IsLeap(y) THEN 29 ELSE 28)
    ELSE IF m \in {4, 6, 9, 11} THEN 30 ELSE 31

\* datetime(y, m, d) raises ValueError outside these ranges
ValidDate(y, m, d) ==
    /\ y >= 1 /\ y <= 9999
    /\ m >= 1 /\ m <= 12
    /\ d >= 1 /\ d <= DaysInMonth(y, m)

\* A filter that lets a track without a release date through
IsRecentOrUndated(release_date, today) ==
    IF release_date = <<>> THEN TRUE
    ELSE LET y == release_date[1]
             m == IF Len(release_date) >= 2 THEN release_date[2] ELSE 1
             d == IF Len(release_date) >= 3 THEN release_date[3] ELSE 1
         IN  /\ ValidDate(y, m, d)
             /\ DaysFromCivil(y, m, d) > today - RecentDays

\* today is datetime.now(), taken after midnight: release >= cutoff compares a
\* midnight with a later time of day
_is_recent_release(release_date, today) ==
    IF release_date = <<>> THEN FALSE
    ELSE LET y == release_date[1]
             m == IF Len(release_date) >= 2 THEN release_date[2] ELSE 1
             d == IF Len(release_date) >= 3 THEN release_date[3] ELSE 1
         IN  /\ ValidDate(y, m, d)
             /\ DaysFromCivil(y, m, d) > today - RecentDays

\* A count that leaves out the members that are exactly days old
CountExpiredStrict(pl, today, days) ==
    Cardinality({i \in 1..Len(pl) :
                    Known(pl[i]) /\ today - pl[i].added_at > days})

\* _count_expired_tracks: items without added_at are not counted
_count_expired_tracks(pl, today, days) ==
    Cardinality({i \in 1..Len(pl) :
                    Known(pl[i]) /\ today - pl[i].added_at >= days})

(***************************************************************************)
(* Discovery mode                                                          *)
(***************************************************************************)
\* What a source playlist yields when sp.playlist_items raises
ScanFailed == <<-1>>

CandidateAt(cands, uri) == CHOOSE i \in 1..Len(cands) : cands[i].uri = uri

RECURSIVE ScanItems(_, _, _)
ScanItems(items, pid, tracks_map) ==
    IF items = <<>> THEN tracks_map
    ELSE LET uri == Head(items)
             seen == \E i \in 1..Len(tracks_map) : tracks_map[i].uri = uri
             k == CandidateAt(tracks_map, uri)
             new == [artiest |-> ArtistOf(uri), titel |-> uri,
                     release_date |-> ReleaseOf(uri), uri |-> uri,
                     overlap |-> 1, bronnen |-> <<pid>>]
         IN  ScanItems(Tail(items), pid,
                IF seen
                THEN [tracks_map EXCEPT ![k].overlap = @ + 1,
                                        ![k].bronnen = Append(@, pid)]
                ELSE Append(tracks_map, new))

RECURSIVE ScanSources(_, _, _)
\* listings[i] is what source i returns
ScanSources(playlist_ids, listings, tracks_map) ==
    IF playlist_ids = <<>> THEN tracks_map
    ELSE ScanSources(Tail(playlist_ids), Tail(listings),
            IF Head(listings) = ScanFailed THEN tracks_map
            ELSE ScanItems(Head(listings), Head(playlist_ids), tracks_map))

scan_source_playlists(playlist_ids, listings) ==
    ScanSources(playlist_ids, listings, <<>>)

\* _load_playlist_uris: the pages read before a failure still count
_load_playlist_uris(pl, pages_read) ==
    {pl[i].uri : i \in 1..Min(Len(pl), pages_read * BlockPageLimit)}

_load_history_uris(h) == Range(UrisOf(h))

_load_queue_uris(q) == IF q.exists THEN Range(ReadQueueUris(q)) ELSE {}

BatchSize == 100

\* The oracle's answer for one batch when the call or its parsing fails
ScoringFailed == <<-1>>

\* score_candidates: answer[i], when given, is the score of batch member i
\* (1-based here); a failed batch scores NeutralScore throughout
score_candidates(batch, answer) ==
    IF batch = <<>> THEN <<>>
    ELSE IF answer = ScoringFailed THEN [i \in 1..Len(batch) |-> NeutralScore]
    ELSE [i \in (DOMAIN answer) \cap (1..Len(batch)) |-> answer[i]]

RECURSIVE ScoreBatchesUnshifted(_, _, _, _)
\* A loop that files every batch's scores under the batch's own indices
ScoreBatchesUnshifted(candidates, answers, batch_start, all_scores) ==
    IF batch_start >= Len(candidates) THEN all_scores
    ELSE LET batch == SubSeq(candidates, batch_start + 1,
                             Min(Len(candidates), batch_start + BatchSize))
             answer == IF answers = <<>> THEN ScoringFailed ELSE Head(answers)
         IN  ScoreBatchesUnshifted(candidates,
                          IF answers = <<>> THEN <<>> ELSE Tail(answers),
                          batch_start + BatchSize,
                          score_candidates(batch, answer) @@ all_scores)

RECURSIVE ScoreBatches(_, _, _, _)
ScoreBatches(candidates, answers, batch_start, all_scores) ==
    IF batch_start >= Len(candidates) THEN all_scores
    ELSE LET batch == SubSeq(candidates, batch_start + 1,
                             Min(Len(candidates), batch_start + BatchSize))
             answer == IF answers = <<>> THEN ScoringFailed ELSE Head(answers)
             batch_scores == score_candidates(batch, answer)
             shifted == [j \in {batch_start + i : i \in DOMAIN batch_scores} |->
                            batch_scores[j - batch_start]]
         IN  ScoreBatches(candidates,
                          IF answers = <<>> THEN <<>> ELSE Tail(answers),
                          batch_start + BatchSize, shifted @@ all_scores)

\* A score in which every source counts, however many there are
CombinedScoreUncapped(track, smaak) == smaak * 7 + track.overlap * 2 * 3

\* combined_score, times 10
CombinedScore(track, smaak) == smaak * 7 + Min(track.overlap, MaxOverlapBonus) * 2 * 3

RECURSIVE InsertByScoreUnstable(_, _)
\* An insertion that puts a track before the tracks of equal score
InsertByScoreUnstable(sorted, track) ==
    IF sorted = <<>> THEN <<track>>
    ELSE IF track.combined_score >= Head(sorted).combined_score THEN <<track>> \o sorted
    ELSE <<Head(sorted)>> \o InsertByScoreUnstable(Tail(sorted), track)

RECURSIVE InsertByScore(_, _)
InsertByScore(sorted, track) ==
    IF sorted = <<>> THEN <<track>>
    ELSE IF track.combined_score > Head(sorted).combined_score THEN <<track>> \o sorted
    ELSE <<Head(sorted)>> \o InsertByScore(Tail(sorted), track)

RECURSIVE SortByScore(_)
\* ranked.sort(key=-combined_score): stable, best first
SortByScore(ranked) ==
    IF ranked = <<>> THEN <<>>
    ELSE InsertByScore(SortByScore(SubSeq(ranked, 1, Len(ranked) - 1)),
                       ranked[Len(ranked)])

\* A selection that takes the best count tracks whoever performs them
SelectRankedUnlimited(ranked, selected, artiest_count, count, max_per_artiest) ==
    SubSeq(ranked, 1, Min(Len(ranked), Max(count, 1)))

RECURSIVE SelectRanked(_, _, _, _, _)
SelectRanked(ranked, selected, artiest_count, count, max_per_artiest) ==
    IF ranked = <<>> THEN selected
    ELSE LET track == Head(ranked)
             artiest == track.artiest
         IN  IF max_per_artiest > 0 /\ artiest_count[artiest] >= max_per_artiest
             THEN SelectRanked(Tail(ranked), selected, artiest_count, count,
                               max_per_artiest)
             ELSE IF Len(selected) + 1 >= count THEN Append(selected, track)
             ELSE SelectRanked(Tail(ranked), Append(selected, track),
                               [artiest_count EXCEPT ![artiest] = @ + 1],
                               count, max_per_artiest)

rank_and_select(candidates, scores, count, max_per_artiest) ==
    LET ranked == [i \in 1..Len(candidates) |->
                      LET smaak == IF i \in DOMAIN scores THEN scores[i]
                                   ELSE NeutralScore
                      IN  [artiest |-> candidates[i].artiest,
                           titel |-> candidates[i].titel,
                           uri |-> candidates[i].uri,
                           overlap |-> candidates[i].overlap,
                           smaak_score |-> smaak,
                           combined_score |-> CombinedScore(candidates[i], smaak)]]
    IN  SelectRanked(SortByScore(ranked), <<>>, [a \in Artists |-> 0], count,
                     max_per_artiest)

DiscoveryEntries(selected) ==
    [i \in 1..Len(selected) |->
        Entry(<<"discovery">>, selected[i].artiest, selected[i].titel, selected[i].uri)]

\* The candidates left after the used filter and the release filter
DiscoveryCandidates(all_tracks, used_uris, today) ==
    SelectSeq(all_tracks,
              LAMBDA t : t.uri \notin used_uris /\ _is_recent_release(t.release_date, today))

(***************************************************************************)
(* Configurations                                                          *)
(***************************************************************************)
CategoryLists ==
    { << <<"pop">> >>, << <<"10s">>, <<"20s">> >> }

\* The staleness threshold the specification attributes to a list
staleAgeDays(w) == w.stale_age_days

\* Category lists that fill the live list with at most MaxLive members
CategoryConfigs ==
    {w \in [type : {"categorie"}, categorieen : CategoryLists, blok_grootte : {1},
            max_per_artiest : {0, 1}, aantal_blokken : 1..MaxBlokken,
            bron_playlists : {<<>>}, smaakprofiel : {FALSE},
            stale_age_days : {max_days}] :
        Len(w.categorieen) * w.aantal_blokken <= MaxLive}

\* Discovery lists of MaxBlokken blocks, with the staleness threshold the code
\* uses or a longer one
DiscoveryConfigs ==
    [type : {"discovery"}, categorieen : {<<>>}, blok_grootte : 1..MaxBlokGrootte,
     max_per_artiest : {0}, aantal_blokken : {MaxBlokken},
     bron_playlists : {<<1, 2>>}, smaakprofiel : {TRUE},
     stale_age_days : {max_days, LongStaleAge}]

NoResult == [op |-> "none", status |-> "none", verwijderd |-> 0, toegevoegd |-> 0,
             nieuw_blok |-> FALSE, gone |-> 0]

NoGen == [kind |-> "none", total |-> 0, filled |-> 0, block |-> <<>>]

NoPre == [taken |-> FALSE, playlist |-> <<>>, historie |-> <<>>,
          wachtrij |-> [exists |-> FALSE, lines |-> <<>>], sort_by_age |-> FALSE]

NoLoc == [poging |-> 0, blok_nr |-> 0, totaal |-> 0, bestaande_blokken |-> 0,
          mislukt |-> 0, toegevoegd |-> 0, expired_count |-> 0, effective_size |-> 0,
          candidates |-> <<>>]

Today == DaysFromCivil(2026, 11, 3)

\* No operation has run yet
Fresh ==
    /\ now = Today
    /\ ticks = 0
    /\ faults = 0
    /\ pc = "idle"
    /\ loc = NoLoc
    /\ result = NoResult
    /\ pre = NoPre
    /\ gen = NoGen
    /\ runs = <<>>

\* A new list: nothing in the live list, no History, no Queue file
InitWith(configs) ==
    /\ wl \in configs
    /\ playlist = <<>>
    /\ historie = <<>>
    /\ wachtrij = [exists |-> FALSE, lines |-> <<>>]
    /\ Fresh

Init == InitWith(CategoryConfigs \cup DiscoveryConfigs)

(***************************************************************************)
(* Inputs of the external collaborators                                    *)
(***************************************************************************)
SeqsUpTo(S, n) == UNION {[1..k -> S] : k \in 0..n}

\* The lines the suggestion oracle may return for the configured categories:
\* a track of the catalog under a configured label, or a title Spotify does
\* not know
SuggestionLines(categorieen) ==
    {<<c, ArtistOf(t), t>> : c \in Range(categorieen), t \in 1..NumSuggested}
        \cup {<<Head(categorieen), 1, 0>>}

\* The oracle's answers to one generate_block call, round by round: up to n
\* lines in the first round, or one line in the first and up to n - 1 in the
\* second
OracleScripts(categorieen, n) ==
    {<<a, <<>>, <<>>>> : a \in SeqsUpTo(SuggestionLines(categorieen), n)}
        \cup {<<a, b, <<>>>> : a \in SeqsUpTo(SuggestionLines(categorieen), 1),
                               b \in SeqsUpTo(SuggestionLines(categorieen), n - 1)}

\* What one source playlist returns: its tracks, or a failure of the call
SourceListings == (SeqsUpTo(Tracks, MaxSourceLen) \ {<<>>}) \cup {ScanFailed}

ScoreValues == {2, 9}

\* One batch's answer: a failure, or a score for each of its first members
ScoringAnswers == {ScoringFailed} \cup [1..2 -> ScoreValues]

\* The call of rotate_playlist that raises, if any
RotateFailures == {"none", "read", "remove", "add"}

\* The failures the collaborators can still produce
Faulty == faults < MaxFaults
Failures == IF Faulty THEN RotateFailures ELSE {"none"}

(***************************************************************************)
(* The clock.  Only the discovery flow reads it.                           *)
(***************************************************************************)
Tick ==
    /\ pc = "idle"
    /\ wl.type = "discovery"
    /\ ticks < MaxTicks
    /\ now' = now + TickDays
    /\ ticks' = ticks + 1
    /\ pre' = NoPre
    /\ gen' = NoGen
    /\ UNCHANGED <<wl, faults, playlist, historie, wachtrij, pc, loc, result, runs>>

(***************************************************************************)
(* rotate_and_regenerate, category flow                                    *)
(***************************************************************************)
Snapshot(sort_by_age) ==
    [taken |-> TRUE, playlist |-> playlist, historie |-> historie,
     wachtrij |-> wachtrij, sort_by_age |-> sort_by_age]

RotateResult(r) ==
    [op |-> "rotate", status |-> r.status, verwijderd |-> r.verwijderd,
     toegevoegd |-> r.toegevoegd, nieuw_blok |-> FALSE, gone |-> r.gone]

GenObserved(g) ==
    [kind |-> g.kind, total |-> g.total, filled |-> g.filled, block |-> g.block]

\* A caller that writes whatever the generation returned
QueueAlwaysWritten(block, q) == WriteLines(block)

\* A caller that leaves the queue file as it is
QueueNeverWritten(block, q) == q

\* The queue file after a generation: written only when there is a block
QueueAfterGeneration(block, q) == IF block # <<>> THEN WriteLines(block) ELSE q

\* A caller that goes on to generate whatever the rotation returned
RegenerateAlways(status) == "regen"

\* if result["status"] == "leeg": return result; an exception ends the call
AfterRotation(status) == IF status = "ok" THEN "regen" ELSE "idle"

\* Steps 0 and 1: the decade check (logging only) and rotate_playlist
RotateCategory ==
    /\ pc = "idle"
    /\ wl.type = "categorie"
    /\ \E fail \in Failures :
         \E r \in {rotate_playlist(playlist, wachtrij, historie, FALSE, now, fail)} :
             /\ Len(r.historie) <= MaxHistory
             /\ faults' = IF r.status = "exception" THEN faults + 1 ELSE faults
             /\ playlist' = r.playlist
             /\ historie' = r.historie
             /\ wachtrij' = r.wachtrij
             /\ pre' = Snapshot(FALSE)
             /\ result' = RotateResult(r)
             /\ pc' = AfterRotation(r.status)
    /\ loc' = NoLoc
    /\ gen' = NoGen
    /\ UNCHANGED <<wl, now, ticks, runs>>

\* The answers generate_block can get in the current state
BlockOutcomes ==
    {GenObserved(generate_block(playlist, historie, wl.categorieen, wl.max_per_artiest,
                                script, TRUE)) :
        script \in OracleScripts(wl.categorieen, MaxLines)}
      \cup {GenObserved(generate_block(playlist, historie, wl.categorieen,
                                       wl.max_per_artiest, <<>>, FALSE))}

\* A retry loop that runs once more
OneMoreAttempt(poging) == poging = max_retries

\* for _ in range(max_retries): poging attempts have failed, this is the last
LastAttempt(poging) == poging + 1 = max_retries

\* Step 2: one pass of the retry loop around generate_block; the queue is
\* written, or the failure reported, when the loop ends
RegenAttempt ==
    /\ pc = "regen"
    /\ \E g \in BlockOutcomes :
         LET last == LastAttempt(loc.poging)
         IN  /\ gen' = GenObserved(g)
             /\ wachtrij' = QueueAfterGeneration(g.block, wachtrij)
             /\ IF g.block # <<>>
                THEN /\ result' = [result EXCEPT !.op = "regenerate", !.nieuw_blok = TRUE]
                     /\ pc' = "idle"
                     /\ loc' = NoLoc
                ELSE /\ result' = IF last THEN [result EXCEPT !.op = "regenerate"]
                                  ELSE result
                     /\ pc' = IF last THEN "idle" ELSE "regen"
                     /\ loc' = IF last THEN NoLoc ELSE [loc EXCEPT !.poging = @ + 1]
    /\ pre' = NoPre
    /\ UNCHANGED <<wl, faults, playlist, historie, now, ticks, runs>>

(***************************************************************************)
(* initial_fill (category mode)                                            *)
(***************************************************************************)
StartFill ==
    /\ pc = "idle"
    /\ wl.type = "categorie"
    /\ LET block_size == Len(wl.categorieen)
           bestaande_tracks == Len(playlist)
           bestaande_blokken == IF block_size > 0 THEN bestaande_tracks \div block_size
                                ELSE 0
           nog_te_vullen == IF bestaande_blokken >= wl.aantal_blokken THEN 0
                            ELSE wl.aantal_blokken - bestaande_blokken
       IN  loc' = [NoLoc EXCEPT !.blok_nr = 1, !.totaal = nog_te_vullen + 1,
                                !.bestaande_blokken = bestaande_blokken]
    /\ pc' = "fill"
    /\ result' = NoResult
    /\ pre' = NoPre
    /\ gen' = NoGen
    /\ UNCHANGED <<wl, faults, playlist, historie, wachtrij, now, ticks, runs>>

\* What initial_fill returns when its loop is over
FillResult(l) ==
    [op |-> "fill", status |-> IF l.mislukt < 2 THEN "wachtrij_klaar" ELSE "niet_klaar",
     verwijderd |-> 0, toegevoegd |-> l.toegevoegd, nieuw_blok |-> FALSE, gone |-> 0]

\* One pass of the retry loop of one block of initial_fill; add_ok is FALSE
\* when sp.playlist_add_items raises
FillAttempt ==
    /\ pc = "fill"
    /\ \E g \in BlockOutcomes :
       \E add_ok \in IF g.block # <<>> /\ loc.blok_nr # loc.totaal /\ Faulty
                     THEN BOOLEAN ELSE {TRUE} :
         LET is_wachtrij == loc.blok_nr = loc.totaal
             last == loc.poging + 1 = max_retries
             got == g.block # <<>>
             placed == got /\ ~is_wachtrij /\ add_ok
             failed == (~got /\ last) \/ (got /\ ~is_wachtrij /\ ~add_ok)
             over == got \/ last
             l1 == [loc EXCEPT
                      !.poging = IF over THEN 0 ELSE @ + 1,
                      !.blok_nr = IF over THEN @ + 1 ELSE @,
                      !.mislukt = IF failed THEN @ + 1 ELSE @,
                      !.toegevoegd = IF placed THEN @ + Len(g.block) ELSE @]
             done == l1.blok_nr > l1.totaal
         IN  /\ gen' = GenObserved(g)
             /\ wachtrij' = IF got /\ is_wachtrij THEN WriteLines(g.block) ELSE wachtrij
             /\ playlist' = IF placed THEN AddItems(playlist, UrisOf(g.block), now)
                            ELSE playlist
             /\ historie' = IF placed THEN historie \o g.block ELSE historie
             /\ Len(historie') <= MaxHistory
             /\ faults' = IF add_ok THEN faults ELSE faults + 1
             /\ pc' = IF done THEN "idle" ELSE "fill"
             /\ loc' = IF done THEN NoLoc ELSE l1
             /\ result' = IF done THEN FillResult(l1) ELSE result
    /\ UNCHANGED <<wl, now, ticks, pre, runs>>

NextCategory == RotateCategory \/ RegenAttempt \/ StartFill \/ FillAttempt

(***************************************************************************)
(* _rotate_discovery                                                       *)
(***************************************************************************)
\* What the sources and the live-list read can answer to one scan
ScanInputs ==
    [listings : [1..2 -> SourceListings], pages_read : IF Faulty THEN {0, 1} ELSE {1}]

\* generate_discovery_block, steps 1 and 2: scan the sources, drop what is used
\* and what is not a recent release
ScanCandidates(w, used_uris, today, listings) ==
    DiscoveryCandidates(scan_source_playlists(w.bron_playlists, listings), used_uris,
                        today)

\* generate_discovery_block, steps 3 and 4, on the candidates that are left
BlockOf(candidates, block_size, w, answers) ==
    IF w.bron_playlists = <<>> \/ ~w.smaakprofiel THEN <<>>
    ELSE IF candidates = <<>> THEN <<>>
    ELSE DiscoveryEntries(rank_and_select(candidates,
                                          ScoreBatches(candidates, answers, 0, <<>>),
                                          block_size, w.max_per_artiest))

\* <<>> stands for None
generate_discovery_block(w, pl, h, q, today, block_size, listings, answers, pages_read) ==
    BlockOf(ScanCandidates(w, _load_history_uris(h) \cup _load_playlist_uris(pl, pages_read)
                                  \cup _load_queue_uris(q),
                           today, listings),
            block_size, w, answers)

\* Step 0: count the members that are max_days old and size the next block
DiscoveryCount ==
    /\ pc = "idle"
    /\ wl.type = "discovery"
    /\ LET block_size == wl.blok_grootte
           expired_count == _count_expired_tracks(playlist, now, max_days)
           effective_size == Max(block_size, expired_count)
       IN  loc' = [NoLoc EXCEPT !.expired_count = expired_count,
                                !.effective_size = effective_size]
    /\ pc' = "dscan"
    /\ result' = NoResult
    /\ pre' = NoPre
    /\ gen' = NoGen
    /\ UNCHANGED <<wl, faults, playlist, historie, wachtrij, now, ticks, runs>>

\* Step 1, first half: the candidates generate_discovery_block is left with
DiscoveryScan ==
    /\ pc = "dscan"
    /\ \E candidates \in
            {ScanCandidates(wl, _load_history_uris(historie)
                                  \cup _load_playlist_uris(playlist, in.pages_read)
                                  \cup _load_queue_uris(wachtrij),
                            now, in.listings) : in \in ScanInputs} :
         loc' = [loc EXCEPT !.candidates = candidates]
    /\ pc' = "dgen"
    /\ UNCHANGED <<wl, faults, playlist, historie, wachtrij, now, ticks, result, pre, gen, runs>>

\* Step 1, second half, and step 2: score, select, write the block to the queue
DiscoveryGenerate ==
    /\ pc = "dgen"
    /\ \E block \in {BlockOf(loc.candidates, loc.effective_size, wl, <<a>>) :
                        a \in ScoringAnswers} :
         /\ gen' = [kind |-> IF block = <<>> THEN "rejected" ELSE "complete",
                    total |-> loc.effective_size, filled |-> Len(block),
                    block |-> block]
         /\ wachtrij' = QueueAfterGeneration(block, wachtrij)
         /\ IF block = <<>>
            THEN /\ result' = [NoResult EXCEPT !.op = "regenerate", !.status = "fout"]
                 /\ pc' = "idle"
            ELSE /\ result' = result
                 /\ pc' = "drotate"
    /\ loc' = [loc EXCEPT !.candidates = <<>>]
    /\ UNCHANGED <<wl, faults, playlist, historie, now, ticks, pre, runs>>

\* Step 3: rotate_playlist with sort_by_age
DiscoveryRotateWith(failures) ==
    /\ pc = "drotate"
    /\ \E fail \in failures :
         \E r \in {rotate_playlist(playlist, wachtrij, historie, TRUE, now, fail)} :
             /\ Len(r.historie) <= MaxHistory
             /\ faults' = IF r.status = "exception" THEN faults + 1 ELSE faults
             /\ playlist' = r.playlist
             /\ historie' = r.historie
             /\ wachtrij' = r.wachtrij
             /\ pre' = Snapshot(TRUE)
             /\ result' = [RotateResult(r) EXCEPT !.nieuw_blok = (r.status # "exception")]
    /\ pc' = "idle"
    /\ UNCHANGED <<wl, now, ticks, loc, gen, runs>>

DiscoveryRotate == DiscoveryRotateWith(Failures)

(***************************************************************************)
(* initial_fill_discovery                                                  *)
(***************************************************************************)
RECURSIVE FillBlocks(_, _, _, _, _, _)
\* The loop over the blocks; fail_at is the block whose playlist_add_items
\* raises (0: none), which ends the fill with the earlier blocks in place
FillBlocks(blok_nr, st, all_selected, w, t, fail_at) ==
    LET totaal == w.aantal_blokken + 1
        block_size == w.blok_grootte
        start_idx == (blok_nr - 1) * block_size
        block_tracks == SubSeq(all_selected, Min(start_idx, Len(all_selected)) + 1,
                               Min(start_idx + block_size, Len(all_selected)))
        block == DiscoveryEntries(block_tracks)
    IN  IF blok_nr > totaal THEN st
        ELSE IF block_tracks = <<>>
        THEN FillBlocks(blok_nr + 1, [st EXCEPT !.mislukt = @ + 1], all_selected, w, t,
                        fail_at)
        ELSE IF blok_nr = totaal
        THEN FillBlocks(blok_nr + 1, [st EXCEPT !.wachtrij = WriteLines(block)],
                        all_selected, w, t, fail_at)
        ELSE IF blok_nr = fail_at THEN [st EXCEPT !.status = "exception"]
        ELSE FillBlocks(blok_nr + 1,
                        [st EXCEPT !.playlist = AddItems(@, UrisOf(block), t),
                                   !.historie = @ \o block,
                                   !.toegevoegd = @ + Len(block)],
                        all_selected, w, t, fail_at)

\* initial_fill_discovery from its scoring step on
FillFrom(candidates, w, pl, h, q, today, answers, fail_at) ==
    LET totaal == w.aantal_blokken + 1
        all_scores == ScoreBatches(candidates, answers, 0, <<>>)
        all_selected == rank_and_select(candidates, all_scores,
                                        totaal * w.blok_grootte, w.max_per_artiest)
        st == [status |-> "klaar", playlist |-> pl, historie |-> h, wachtrij |-> q,
               mislukt |-> 0, toegevoegd |-> 0]
    IN  IF candidates = <<>> THEN [st EXCEPT !.mislukt = totaal]
        ELSE FillBlocks(1, st, all_selected, w, today, fail_at)

initial_fill_discovery(w, pl, h, q, today, listings, answers, pages_read, fail_at) ==
    FillFrom(ScanCandidates(w, _load_history_uris(h) \cup _load_playlist_uris(pl, pages_read),
                            today, listings),
             w, pl, h, q, today, answers, fail_at)

\* initial_fill_discovery, steps 1 and 2: the queue is not among the used
FillScan ==
    /\ pc = "idle"
    /\ wl.type = "discovery"
    /\ \E candidates \in
            {ScanCandidates(wl, _load_history_uris(historie)
                                  \cup _load_playlist_uris(playlist, in.pages_read),
                            now, in.listings) : in \in ScanInputs} :
         loc' = [NoLoc EXCEPT !.candidates = candidates]
    /\ pc' = "dfill"
    /\ result' = NoResult
    /\ pre' = NoPre
    /\ gen' = NoGen
    /\ UNCHANGED <<wl, faults, playlist, historie, wachtrij, now, ticks, runs>>

\* initial_fill_discovery, steps 3 and 4 and the loop over the blocks
FillDiscovery ==
    /\ pc = "dfill"
    /\ \E r \in {FillFrom(loc.candidates, wl, playlist, historie, wachtrij, now, <<a>>,
                          fail_at) :
                    a \in ScoringAnswers,
                    fail_at \in IF Faulty THEN 0..wl.aantal_blokken ELSE {0}} :
         /\ Len(r.historie) <= MaxHistory
         /\ faults' = IF r.status = "exception" THEN faults + 1 ELSE faults
         /\ playlist' = r.playlist
         /\ historie' = r.historie
         /\ wachtrij' = r.wachtrij
         /\ result' = [op |-> "fill",
                       status |-> IF r.status = "exception" THEN "exception"
                                  ELSE IF r.mislukt < 2 THEN "wachtrij_klaar"
                                  ELSE "niet_klaar",
                       verwijderd |-> 0, toegevoegd |-> r.toegevoegd,
                       nieuw_blok |-> FALSE, gone |-> 0]
    /\ pc' = "idle"
    /\ loc' = NoLoc
    /\ UNCHANGED <<wl, now, ticks, pre, gen, runs>>

NextDiscovery ==
    DiscoveryCount \/ DiscoveryScan \/ DiscoveryGenerate \/ DiscoveryRotate
        \/ FillScan \/ FillDiscovery

Next == Tick \/ NextCategory \/ NextDiscovery

Spec == Init /\ [][Next]_vars

(***************************************************************************)
(* generate_block on its own: one call on a list as a fill or a rotation   *)
(* can have left it                                                        *)
(***************************************************************************)
GenCategoryLists ==
    { << <<"pop">> >>, << <<"10s">>, <<"20s">> >>, << <<"pop">>, <<"10s">>, <<"20s">> >>,
      << <<"pop">>, <<"pop">> >>, << <<"20s">>, <<"pop">> >> }

GenConfigs ==
    [type : {"categorie"}, categorieen : GenCategoryLists, blok_grootte : {1},
     max_per_artiest : {0, 1, 2}, aantal_blokken : {1},
     bron_playlists : {<<>>}, smaakprofiel : {FALSE}, stale_age_days : {max_days}]

\* A member placed by a fill: in the live list and in History
Placed(t) == Entry(<<"pop">>, ArtistOf(t), t, t)

GenInit ==
    /\ wl \in GenConfigs
    /\ \E placed \in SeqsUpTo(1..NumSuggested, 1) :
         /\ playlist = [i \in 1..Len(placed) |-> Item(placed[i], Today)]
         /\ historie = [i \in 1..Len(placed) |-> Placed(placed[i])]
    /\ wachtrij = [exists |-> FALSE, lines |-> <<>>]
    /\ Fresh

LongRound == 6

\* s, n times
Repeated(s, n) == [i \in 1..n |-> s]

\* Answers in which the oracle keeps naming titles the catalog does not know
\* for the first category: a long first round, one more line or none in the
\* second
LongScripts(categorieen) ==
    {<<Repeated(<<Head(categorieen), 1, 0>>, n),
       Repeated(<<Head(categorieen), 2, 0>>, m), <<>>>> :
        n \in (LongRound - 1)..LongRound, m \in 0..1}

\* gen is what the call returned and did, with the answers it got
GenerateOnce ==
    /\ pc = "idle"
    /\ \/ \E script \in OracleScripts(wl.categorieen, GenLines)
                          \cup LongScripts(wl.categorieen) :
            gen' = generate_block(playlist, historie, wl.categorieen,
                                  wl.max_per_artiest, script, TRUE)
                       @@ ("script" :> script)
       \/ gen' = generate_block(playlist, historie, wl.categorieen,
                                wl.max_per_artiest, <<>>, FALSE)
                       @@ ("script" :> <<>>)
    /\ pc' = "done"
    /\ UNCHANGED <<wl, playlist, historie, wachtrij, now, ticks, faults, loc, result, pre,
                   runs>>

GenSpec == GenInit /\ [][GenerateOnce]_vars

\* ceil(0.8 * total)
CeilEighty(total) == (8 * total + 9) \div 10

\* C7: generate_block returns a partial block iff
\* ceil(0.8 * total) <= filled < total, the complete block iff filled = total,
\* and no block whenever filled < ceil(0.8 * total)
C7_PartialThreshold ==
    pc = "done" =>
        /\ gen.kind = "partial" <=> (CeilEighty(gen.total) <= gen.filled
                                        /\ gen.filled < gen.total)
        /\ gen.kind = "complete" <=> gen.filled = gen.total
        /\ gen.filled < CeilEighty(gen.total) => gen.kind = "rejected"

(***************************************************************************)
(* Properties of the lifecycle                                             *)
(***************************************************************************)
HistoryIds == Range(UrisOf(historie))
QueueIds == Range(ReadQueueUris(wachtrij))
LiveIds == {playlist[i].uri : i \in 1..Len(playlist)}

\* How often an identifier occurs in History, Queue and live list together
Occurrences(u) ==
    Cardinality({i \in 1..Len(historie) : historie[i].uri = u})
        + Cardinality({i \in 1..Len(wachtrij.lines) : wachtrij.lines[i].uri = u})
        + Cardinality({i \in 1..Len(playlist) : playlist[i].uri = u})

\* rotate_and_regenerate has returned ok with a new block
CycleDone == pc = "idle" /\ result.status = "ok" /\ result.nieuw_blok

\* rotate_playlist has just returned
Rotated == pre.taken /\ result.op = "rotate"

PreQueueUris == ReadQueueUris(pre.wachtrij)

\* C1: after a successful cycle of rotation and block generation the
\* identifiers of History, Queue and live list are pairwise disjoint
C1_DedupAfterCycle ==
    CycleDone =>
        /\ HistoryIds \cap QueueIds = {}
        /\ HistoryIds \cap LiveIds = {}
        /\ QueueIds \cap LiveIds = {}

\* C2: in every state reachable from the empty list no identifier occurs more
\* than once in History, Queue and live list together
C2_UniqueItemIds == \A u \in Tracks : Occurrences(u) <= 1

\* C3: a rotation with a non-empty Queue removes exactly
\* min(|Queue|, |live list|) members from the live list
C3_EvictionSize ==
    (Rotated /\ result.status = "ok") =>
        result.gone = Min(Len(PreQueueUris), Len(pre.playlist))

\* C4: after a rotation that returns ok every identifier that was queued is a
\* member of the live list and the Queue is empty, whatever the size of the
\* live list was
C4_QueuedBecomeLive ==
    (Rotated /\ result.status = "ok") =>
        /\ Range(PreQueueUris) \subseteq LiveIds
        /\ QueueIds = {}

\* C5: a rotation aborted by a failing live-list read, removal or addition
\* leaves History and Queue as they were, and the live list has not lost
\* members without gaining the queued ones
C5_NoPartialCommit ==
    (Rotated /\ result.status = "exception") =>
        /\ historie = pre.historie
        /\ wachtrij = pre.wachtrij
        /\ (result.gone > 0 => Range(PreQueueUris) \subseteq LiveIds)

\* C6: with a Queue that is missing, empty or without identifiers, rotation
\* returns the status for empty, which is neither ok nor a failure, and leaves
\* History, live list and Queue unchanged
C6_EmptyQueueNoOp ==
    (Rotated /\ PreQueueUris = <<>>) =>
        /\ result.status = "leeg"
        /\ historie = pre.historie
        /\ playlist = pre.playlist
        /\ wachtrij = pre.wachtrij

\* An emptied Queue file found by a rotation of a list with members and History
C6_Witness ==
    /\ Rotated
    /\ result.status = "leeg"
    /\ pre.wachtrij.exists
    /\ pre.playlist # <<>>
    /\ pre.historie # <<>>

(***************************************************************************)
(* The callers of rotate_and_regenerate: the polling thread of             *)
(* _check_schedules (thread 0) and the threads api_roteren starts, one per *)
(* request (threads 1..MaxThreads).  Each runs the category flow on the    *)
(* same list; the steps of one execution are its file and Spotify calls.   *)
(***************************************************************************)
Threads == 0..MaxThreads

NoRun == [st |-> "idle", new_uris |-> <<>>]

InProgress == {t \in Threads : runs[t].st # "idle"}

ConcConfigs ==
    {w \in CategoryConfigs :
        Len(w.categorieen) = 1 /\ w.max_per_artiest = 0 /\ w.aantal_blokken = 1}

ConcInit ==
    /\ wl \in ConcConfigs
    /\ playlist = <<>>
    /\ historie = <<>>
    /\ wachtrij = [exists |-> FALSE, lines |-> <<>>]
    /\ now = Today
    /\ ticks = 0
    /\ faults = MaxFaults
    /\ pc = "idle"
    /\ loc = NoLoc
    /\ result = NoResult
    /\ pre = NoPre
    /\ gen = NoGen
    /\ runs = [t \in Threads |-> NoRun]

\* api_roteren: thread.start() on every request; _check_schedules: the call in
\* its loop.  Neither looks at the executions already running.
CallerStart(t) ==
    /\ pc = "idle"
    /\ runs[t].st = "idle"
    /\ runs' = [runs EXCEPT ![t].st = "started"]
    /\ UNCHANGED <<wl, playlist, historie, wachtrij, now, ticks, faults, pc, loc, result,
                   pre, gen>>

\* rotate_playlist up to block_size = len(new_uris)
RunReadQueue(t) ==
    /\ runs[t].st = "started"
    /\ LET new_uris == ReadQueueUris(wachtrij)
       IN  runs' = [runs EXCEPT ![t] = IF ~wachtrij.exists \/ new_uris = <<>> THEN NoRun
                                       ELSE [st |-> "read", new_uris |-> new_uris]]
    /\ UNCHANGED <<wl, playlist, historie, wachtrij, now, ticks, faults, pc, loc, result,
                   pre, gen>>

\* rotate_playlist from the live-list read on, with the new_uris it has read
RunCommit(t) ==
    /\ runs[t].st = "read"
    /\ \E r \in {rotate_playlist(playlist,
                                 [exists |-> TRUE,
                                  lines |-> [i \in 1..Len(runs[t].new_uris) |->
                                                Entry(<<>>, 0, 0, runs[t].new_uris[i])]],
                                 historie, FALSE, now, "none")} :
         /\ Len(r.historie) <= MaxHistory
         /\ playlist' = r.playlist
         /\ historie' = r.historie
         /\ wachtrij' = r.wachtrij
    /\ runs' = [runs EXCEPT ![t].st = "regen"]
    /\ UNCHANGED <<wl, now, ticks, faults, pc, loc, result, pre, gen>>

\* Step 2 of rotate_and_regenerate: the first generate_block that yields a
\* block is queued
RunRegen(t) ==
    /\ runs[t].st = "regen"
    /\ \E g \in BlockOutcomes :
         wachtrij' = IF g.block # <<>> THEN WriteLines(g.block) ELSE wachtrij
    /\ runs' = [runs EXCEPT ![t] = NoRun]
    /\ UNCHANGED <<wl, playlist, historie, now, ticks, faults, pc, loc, result, pre, gen>>

\* The list is filled while no rotation runs
ConcFill == InProgress = {} /\ StartFill

ConcNext ==
    \/ ConcFill
    \/ FillAttempt
    \/ \E t \in Threads : CallerStart(t)
    \/ \E t \in Threads : RunReadQueue(t)
    \/ \E t \in Threads : RunCommit(t)
    \/ \E t \in Threads : RunRegen(t)

ConcSpec == ConcInit /\ [][ConcNext]_vars

\* C8: the callers serialize the rotations of a list: at most one
\* rotate_and_regenerate execution is in progress at any time, so that no two
\* executions hold the same Queue content to commit
C8_SingleWriter ==
    /\ Cardinality(InProgress) <= 1
    /\ \A t, u \in Threads :
          (t # u /\ runs[t].st = "read" /\ runs[u].st = "read")
              => runs[t].new_uris # runs[u].new_uris

(***************************************************************************)
(* Discovery mode under repeated triggers, from a list as                  *)
(* initial_fill_discovery leaves it: a rotation is triggered again and     *)
(* again, every rotation that is started runs to its end, and no call to   *)
(* Spotify raises                                                          *)
(***************************************************************************)
FairConfigs == {w \in DiscoveryConfigs : w.stale_age_days = max_days}

FairInit ==
    /\ wl \in FairConfigs
    /\ \E listings \in [1..2 -> SourceListings], a \in ScoringAnswers :
         \E r \in {initial_fill_discovery(wl, <<>>, <<>>,
                                          [exists |-> FALSE, lines |-> <<>>], Today,
                                          listings, <<a>>, 1, 0)} :
             /\ playlist = r.playlist
             /\ historie = r.historie
             /\ wachtrij = r.wachtrij
    /\ now = Today
    /\ ticks = 0
    /\ faults = MaxFaults
    /\ pc = "idle"
    /\ loc = NoLoc
    /\ result = NoResult
    /\ pre = NoPre
    /\ gen = NoGen
    /\ runs = <<>>

FairNext ==
    Tick \/ DiscoveryCount \/ DiscoveryScan \/ DiscoveryGenerate \/ DiscoveryRotate

\* A rotation is triggered whenever none runs, and the steps of a rotation
\* that runs are taken until it returns
FairSpec ==
    /\ FairInit
    /\ [][FairNext]_vars
    /\ WF_vars(DiscoveryCount)
    /\ []<>(pc = "idle")

\* u is a live member that is max_days old when a rotation is triggered
StaleAtTrigger(u) ==
    /\ pc = "dscan"
    /\ \E i \in 1..Len(playlist) :
          /\ playlist[i].uri = u
          /\ playlist[i].added_at # NoTime
          /\ now - playlist[i].added_at >= max_days

\* C9: under repeated rotation triggers every member that is past the
\* staleness threshold at a trigger is evicted by that rotation or a later one
C9_StaleEvicted == \A u \in Tracks : StaleAtTrigger(u) ~> (u \notin LiveIds)

\* The members of the live list that are at least days old
StaleCount(days) ==
    Cardinality({i \in 1..Len(playlist) :
                    playlist[i].added_at # NoTime /\ now - playlist[i].added_at >= days})

FailedGenerationStep ==
    /\ pc \in {"regen", "dgen"}
    /\ gen'.block = <<>>

\* C11: a generation that fails leaves Queue and History as they were before
\* it, in discovery mode the live list too, and the result it ends with says
\* that no block was made: status fout in discovery mode, nieuw_blok false in
\* category mode
C11_FailedGenerationFrame ==
    [][FailedGenerationStep =>
          /\ wachtrij' = wachtrij
          /\ historie' = historie
          /\ playlist' = playlist
          /\ (pc = "dgen" => pc' = "idle" /\ result'.status = "fout"
                                /\ ~result'.nieuw_blok)
          /\ (pc = "regen" /\ pc' = "idle" => result'.op = "regenerate"
                                                /\ ~result'.nieuw_blok)]_vars

\* A discovery generation has failed on a list with a Queue and a History
C11_Witness ==
    /\ pc = "idle"
    /\ result.op = "regenerate"
    /\ result.status = "fout"
    /\ wachtrij.lines # <<>>
    /\ historie # <<>>

(***************************************************************************)
(* scheduler._execute_rotation: the audit trail (RotatieRun) of the        *)
(* triggered runs.  Here runs is the rotatie_runs table of the list.       *)
(***************************************************************************)
MaxRuns == 2

AuditConfigs ==
    {w \in CategoryConfigs \cup DiscoveryConfigs :
        /\ w.max_per_artiest = 0
        /\ w.stale_age_days = max_days
        /\ Len(w.categorieen) <= 1}

AuditInit == InitWith(AuditConfigs)

\* A RotatieRun row; error_message is None (NULL) or the text of the exception
RotatieRun(status, error_message) ==
    [status |-> status, error_message |-> error_message]

\* The last run is still "gestart"
RunOpen == runs # <<>> /\ runs[Len(runs)].status = "gestart"

\* rotate_and_regenerate has returned or raised
RunReturned == pc = "idle" /\ result.op # "none"

\* The run record is created before rotate_and_regenerate is called
ExecuteStart ==
    /\ pc = "idle"
    /\ ~RunOpen
    /\ Len(runs) < MaxRuns
    /\ runs' = Append(runs, RotatieRun("gestart", None))
    /\ result' = NoResult
    /\ UNCHANGED <<wl, playlist, historie, wachtrij, now, ticks, faults, pc, loc, pre, gen>>

\* The call of rotate_and_regenerate inside the try block
ExecuteRun ==
    /\ RunOpen
    /\ ~RunReturned
    /\ \/ RotateCategory
       \/ RegenAttempt
       \/ DiscoveryCount
       \/ DiscoveryScan
       \/ DiscoveryGenerate
       \/ DiscoveryRotate

\* The update of the run record: "voltooid" when the call returned, "mislukt"
\* with the message when it raised
ExecuteFinish ==
    /\ RunOpen
    /\ RunReturned
    /\ runs' = [runs EXCEPT ![Len(runs)] =
                   IF result.status = "exception"
                   THEN RotatieRun("mislukt", "exception")
                   ELSE RotatieRun("voltooid", None)]
    /\ UNCHANGED <<wl, playlist, historie, wachtrij, now, ticks, faults, pc, loc, result,
                   pre, gen>>

\* The fills run between the triggered runs
AuditFill ==
    /\ ~RunOpen
    /\ \/ StartFill
       \/ FillAttempt
       \/ FillScan
       \/ FillDiscovery

AuditNext == ExecuteStart \/ ExecuteRun \/ ExecuteFinish \/ AuditFill

AuditSpec == AuditInit /\ [][AuditNext]_vars

\* The last triggered run is over and its generation failed
GenerationFailedRun ==
    /\ runs # <<>>
    /\ ~RunOpen
    /\ pc = "idle"
    /\ \/ result.status = "fout"
       \/ result.op = "regenerate" /\ ~result.nieuw_blok

\* C12: a triggered run that ends with a failed generation has its run record
\* persisted as failed, with an error message, and not as completed
C12_FailedRunAudited ==
    GenerationFailedRun =>
        /\ runs[Len(runs)].status = "mislukt"
        /\ runs[Len(runs)].error_message # None

(***************************************************************************)
(* rank_and_select on its own: candidates as a scan returns them, scored   *)
(* by one batch answer, ranked and selected once                           *)
(***************************************************************************)
RankLen == 3

\* What the scoring oracle may give a track, in and out of 1..10
OracleScores == {0, 8, 11}

\* An answer scores the first two tracks of the batch, or fails
RankAnswers == {ScoringFailed} \cup [1..2 -> OracleScores]

IsDistinct(s) == \A i, j \in 1..Len(s) : i # j => s[i] # s[j]

\* A second source that lists track 1 and track 2 so often that, once both
\* are in the first source as well, track 1 is over the overlap that counts
\* and track 2 exactly at it
CrowdedSource == Repeated(1, MaxOverlapBonus) \o Repeated(2, MaxOverlapBonus - 1)

\* Up to RankLen different tracks; the first may be in both sources
RankCandidates ==
    {scan_source_playlists(<<1, 2>>, <<s, second>>) :
        s \in {t \in SeqsUpTo(Tracks, RankLen) : t # <<>> /\ IsDistinct(t)},
        second \in {<<>>, <<1>>, CrowdedSource}}

RankConfigs ==
    [type : {"discovery"}, categorieen : {<<>>}, blok_grootte : 0..RankLen,
     max_per_artiest : 0..2, aantal_blokken : {1},
     bron_playlists : {<<1, 2>>}, smaakprofiel : {TRUE}, stale_age_days : {max_days}]

RankInit ==
    /\ wl \in RankConfigs
    /\ playlist = <<>>
    /\ historie = <<>>
    /\ wachtrij = [exists |-> FALSE, lines |-> <<>>]
    /\ now = Today
    /\ ticks = 0
    /\ faults = 0
    /\ pc = "idle"
    /\ \E c \in RankCandidates : loc = [NoLoc EXCEPT !.candidates = c]
    /\ result = NoResult
    /\ pre = NoPre
    /\ gen = NoGen
    /\ runs = <<>>

\* generate_discovery_block, steps 3 and 4; again is a second call of
\* rank_and_select on the same arguments
RankOnce ==
    /\ pc = "idle"
    /\ \E a \in RankAnswers :
       \E all_scores \in {ScoreBatches(loc.candidates, <<a>>, 0, <<>>)} :
       \E selected \in {rank_and_select(loc.candidates, all_scores, wl.blok_grootte,
                                        wl.max_per_artiest)} :
         gen' = [kind |-> "ranked", total |-> wl.blok_grootte, filled |-> Len(selected),
                 block |-> DiscoveryEntries(selected), scores |-> all_scores,
                 selected |-> selected,
                 again |-> rank_and_select(loc.candidates, all_scores, wl.blok_grootte,
                                           wl.max_per_artiest)]
    /\ pc' = "done"
    /\ UNCHANGED <<wl, playlist, historie, wachtrij, now, ticks, faults, loc, result, pre,
                   runs>>

RankSpec == RankInit /\ [][RankOnce]_vars

\* How often a performer is in a selection
TimesSelected(selected, artiest) ==
    Cardinality({i \in 1..Len(selected) : selected[i].artiest = artiest})

\* C13: with max_per_artiest > 0 no performer is selected more often than
\* that; with max_per_artiest = 0 nobody is skipped, so the selection has
\* count tracks or all of the candidates
C13_QuotaRespected ==
    pc = "done" =>
        /\ wl.max_per_artiest > 0 =>
              \A a \in Artists : TimesSelected(gen.selected, a) <= wl.max_per_artiest
        /\ wl.max_per_artiest = 0 =>
              Len(gen.selected) = Min(Max(wl.blok_grootte, 1), Len(loc.candidates))

\* The limit has kept a candidate out of a selection that had room for it
C13_Witness ==
    /\ pc = "done"
    /\ wl.max_per_artiest > 0
    /\ Len(gen.selected) < Min(wl.blok_grootte, Len(loc.candidates))
    /\ \E a \in Artists : TimesSelected(gen.selected, a) = wl.max_per_artiest

\* The place of a selected track among the candidates
PlaceOf(track) == CandidateAt(loc.candidates, track.uri)

TasteScore(i) == IF i \in DOMAIN gen.scores THEN gen.scores[i] ELSE NeutralScore

\* C19: every candidate that is ranked has a taste score in 1..10
C19_TasteScoreRange ==
    pc = "done" => \A i \in 1..Len(loc.candidates) : TasteScore(i) \in 1..10

(***************************************************************************)
(* The block generate_block returns                                        *)
(***************************************************************************)
\* generate_block has returned a block
BlockReturned == pc = "done" /\ gen.kind \in {"complete", "partial"}

\* C14: the identifiers of a returned block are pairwise distinct and none
\* of them is in History, whatever the configured category list
C14_BlockIdsDistinctAndNew ==
    BlockReturned =>
        /\ IsDistinct(UrisOf(gen.block))
        /\ \A i \in 1..Len(gen.block) : gen.block[i].uri \notin HistoryIds

\* The categories of the entries of the returned block, in block order
BlockCategories == [i \in 1..Len(gen.block) |-> gen.block[i].categorie]

\* C15: a returned block has exactly one entry for each filled category, in
\* the configured order, and a complete block has one entry for each
\* configured category
C15_OneEntryPerFilledCategory ==
    BlockReturned =>
        /\ Len(gen.block) = gen.filled
        /\ IsDistinct(BlockCategories)
        /\ BlockCategories = SelectSeqBy(wl.categorieen, Range(BlockCategories))
        /\ gen.kind = "complete" => BlockCategories = wl.categorieen

(***************************************************************************)
(* scan_source_playlists on its own: one scan of the configured sources    *)
(***************************************************************************)
ScanListLen == 2

\* The source playlists that exist
SourceIds == {1, 2}

\* What a source playlist holds: any tracks, a track twice included, or a
\* playlist that cannot be read
SourceContents == [SourceIds -> SeqsUpTo(Tracks, ScanListLen) \cup {ScanFailed}]

ScanConfigs ==
    [type : {"discovery"}, categorieen : {<<>>}, blok_grootte : {1},
     max_per_artiest : {0}, aantal_blokken : {1},
     bron_playlists : {<<1>>, <<1, 2>>, <<1, 1>>}, smaakprofiel : {TRUE},
     stale_age_days : {max_days}]

ScanInit == InitWith(ScanConfigs)

ScanOnce ==
    /\ pc = "idle"
    /\ \E sources \in SourceContents :
         /\ loc' = [loc EXCEPT !.candidates =
                        scan_source_playlists(wl.bron_playlists,
                            [i \in 1..Len(wl.bron_playlists) |->
                                sources[wl.bron_playlists[i]]])]
         /\ gen' = [kind |-> "scanned", total |-> 0, filled |-> 0, block |-> <<>>,
                    sources |-> sources]
    /\ pc' = "done"
    /\ UNCHANGED <<wl, playlist, historie, wachtrij, now, ticks, faults, result, pre, runs>>

ScanSpec == ScanInit /\ [][ScanOnce]_vars

\* The configured sources that could be read and hold the identifier
SourcesHolding(uri) ==
    {pid \in Range(wl.bron_playlists) :
        gen.sources[pid] # ScanFailed /\ uri \in Range(gen.sources[pid])}

\* C17: after a scan the overlap of each candidate is the number of distinct
\* configured sources that hold its identifier
C17_OverlapCountsSources ==
    pc = "done" =>
        \A i \in 1..Len(loc.candidates) :
            loc.candidates[i].overlap = Cardinality(SourcesHolding(loc.candidates[i].uri))

(***************************************************************************)
(* History is append-only                                                  *)
(***************************************************************************)
IsPrefixOf(s, t) == Len(s) <= Len(t) /\ SubSeq(t, 1, Len(s)) = s

\* The members of the live list that survived the rotation: the additions
\* follow them
Survivors == Take(playlist, Len(pre.playlist) - result.gone)

\* The members the rotation took out of the live list, in eviction order
EvictedMembers ==
    SelectSeq(CurrentItems(pre.playlist, pre.sort_by_age),
              LAMBDA it : \A i \in 1..Len(Survivors) : Survivors[i].uri # it.uri)

\* C18: every step leaves the previous History as a prefix of the new one,
\* and a rotation appends the entries of the evicted members, in eviction
\* order, and nothing else
C18_HistoryAppendOnly ==
    [][/\ IsPrefixOf(historie, historie')
       /\ Rotated' =>
             historie' = pre'.historie
                           \o [i \in 1..Len(EvictedMembers') |->
                                  EvictedEntry(EvictedMembers'[i])]]_vars

\* The members the rotation added to the live list
AddedMembers == SubSeq(playlist, Len(Survivors) + 1, Len(playlist))

\* C20: in a rotation result with status ok, verwijderd is the number of
\* members removed from the live list and appended to History, and
\* toegevoegd is the number of queued items added to the live list
C20_CountsMatchEffects ==
    (Rotated /\ result.status = "ok") =>
        /\ result.verwijderd = result.gone
        /\ result.verwijderd = Len(historie) - Len(pre.historie)
        /\ result.toegevoegd = Len(AddedMembers)

(***************************************************************************)
(* _process_suggestions line by line: one round of suggestion lines run    *)
(* through the checks, one line per step                                   *)
(***************************************************************************)
PipeLen == 2

PipeCategoryLists ==
    { << <<"pop">>, <<"k", "pop">> >>, << <<"10s">>, <<"20s">> >>,
      << <<"20s">>, <<"pop">> >> }

\* The labels the oracle may put on a line: the configured ones, in another
\* case, numbered, empty, or unrelated to every configured label
PipeLabels(categorieen) ==
    Range(categorieen) \cup {<<"POP">>, <<"1.", "20s">>, <<>>, <<"rock">>}

\* The lines of a round: a title the catalog does not know (0), or a track of
\* the catalog with its performer
PipeLines(categorieen) ==
    {<<c, ArtistOf(t), t>> : c \in PipeLabels(categorieen),
                              t \in {0, 1, 2, Undated, Misdated}}

PipeConfigs ==
    [type : {"categorie"}, categorieen : PipeCategoryLists, blok_grootte : {1},
     max_per_artiest : {0, 1}, aantal_blokken : {1},
     bron_playlists : {<<>>}, smaakprofiel : {FALSE}, stale_age_days : {max_days}]

\* gen.ctx is the state the checks share, gen.before what it was before the
\* line gen.line was processed, gen.lines the lines still to come
PipeInit ==
    /\ wl \in PipeConfigs
    /\ \E placed \in SeqsUpTo({1}, 1) :
         /\ playlist = [i \in 1..Len(placed) |-> Item(placed[i], Today)]
         /\ historie = [i \in 1..Len(placed) |-> Placed(placed[i])]
    /\ wachtrij = [exists |-> FALSE, lines |-> <<>>]
    /\ now = Today
    /\ ticks = 0
    /\ faults = 0
    /\ pc = "idle"
    /\ loc = NoLoc
    /\ result = NoResult
    /\ pre = NoPre
    /\ runs = <<>>
    /\ \E lines \in SeqsUpTo(PipeLines(wl.categorieen), PipeLen) \ {<<>>} :
       \E ctx \in {BlockContext(playlist, historie, wl.max_per_artiest)} :
         gen = [kind |-> "pipeline", total |-> Len(wl.categorieen), filled |-> 0,
                block |-> <<>>, ctx |-> ctx, before |-> ctx, line |-> <<>>,
                lines |-> lines]

\* One iteration of the loop; the break when the last category is filled
ProcessNextLine ==
    /\ pc = "idle"
    /\ gen.lines # <<>>
    /\ \E next \in {ProcessLine(gen.ctx, Head(gen.lines), wl.categorieen,
                                wl.max_per_artiest)} :
         /\ gen' = [gen EXCEPT !.ctx = next, !.before = gen.ctx,
                               !.line = Head(gen.lines), !.lines = Tail(gen.lines),
                               !.filled = Cardinality(DOMAIN next.filled)]
         /\ pc' = IF next.filled # gen.ctx.filled
                     /\ Cardinality(DOMAIN next.filled) = Len(wl.categorieen)
                  THEN "done" ELSE "idle"
    /\ UNCHANGED <<wl, playlist, historie, wachtrij, now, ticks, faults, loc, result, pre,
                   runs>>

PipeSpec == PipeInit /\ [][ProcessNextLine]_vars

\* A line has been processed
LineProcessed == gen.kind = "pipeline" /\ gen.line # <<>>

\* The line just processed, and what each check says about it in the state
\* the line found
LineArtist == gen.line[2]
LineTitle == gen.line[3]
LineCategory == _match_categorie(gen.line[1], wl.categorieen, gen.before.filled)
LineFound == search_spotify(LineArtist, LineTitle)
AtQuota ==
    wl.max_per_artiest > 0 /\ gen.before.artist_counts[LineArtist] >= wl.max_per_artiest
Unresolved == LineFound.uri = NoUri
AlreadyUsed == LineFound.uri \in gen.before.used_uris
EraMismatch ==
    /\ _extract_decade(LineCategory) # None
    /\ LineFound.release_date # <<>>
    /\ LineFound.release_date[1] >= 0
    /\ DecadeOfYear(LineFound.release_date[1]) # _extract_decade(LineCategory)

\* The first check that fails, in the order quota, catalog, history, era
FirstFailure ==
    CASE AtQuota -> "artiest op max"
      [] ~AtQuota /\ Unresolved -> "niet op Spotify"
      [] ~AtQuota /\ ~Unresolved /\ AlreadyUsed -> "al in historie"
      [] ~AtQuota /\ ~Unresolved /\ ~AlreadyUsed /\ EraMismatch -> "decade mismatch"
      [] OTHER -> "none"

ReasonsFor(ctx, cat) == IF cat \in DOMAIN ctx.skipped THEN ctx.skipped[cat] ELSE <<>>

\* C21: for a line whose category matched the checks run in the order quota,
\* catalog, history, era; the first that fails records one reason under the
\* matched category and nothing after it is evaluated (no catalog lookup for
\* a performer at quota); a line without a match records nothing; the round
\* goes on after a failed line
C21_ChecksInOrder ==
    LineProcessed =>
        /\ \A c \in Range(wl.categorieen) \ {LineCategory} :
              ReasonsFor(gen.ctx, c) = ReasonsFor(gen.before, c)
        /\ LineCategory = NoCategory =>
              /\ gen.ctx.skipped = gen.before.skipped
              /\ gen.ctx.lookups = gen.before.lookups
        /\ (LineCategory # NoCategory /\ FirstFailure = "none") =>
              gen.ctx.skipped = gen.before.skipped
        /\ (LineCategory # NoCategory /\ FirstFailure # "none") =>
              /\ ReasonsFor(gen.ctx, LineCategory) =
                    Append(ReasonsFor(gen.before, LineCategory),
                           [artiest |-> LineArtist, titel |-> LineTitle,
                            reden |-> FirstFailure])
              /\ pc = "idle"
        /\ LineCategory # NoCategory =>
              gen.ctx.lookups = gen.before.lookups + (IF AtQuota THEN 0 ELSE 1)

\* A matched line that fails the quota check and would fail a later one too
C21_Witness ==
    /\ LineProcessed
    /\ LineCategory # NoCategory
    /\ AtQuota /\ (Unresolved \/ AlreadyUsed)
    /\ gen.lines # <<>>

(***************************************************************************)
(* The oracle calls of one generate_block attempt                          *)
(***************************************************************************)
\* The labels that can be filled
Fillable == Cardinality(Range(wl.categorieen))

\* C22 as stated: one attempt calls the oracle at least once and at most 3
\* times, never re-asks when nothing is missing, uses all 3 calls when
\* something stays missing, and ends complete, partial or rejected
C22_OracleCalls ==
    pc = "done" =>
        /\ gen.calls \in 1..(1 + max_reasks)
        /\ gen.calls = 1 + Len(gen.reasks)
        /\ \A i \in 1..Len(gen.reasks) : gen.reasks[i].missing # <<>>
        /\ gen.filled < Fillable => gen.calls = 1 + max_reasks
        /\ gen.kind \in {"complete", "partial", "rejected"}

\* C22, amended: the same for an attempt whose live-list read succeeded; an
\* attempt whose live-list read failed is rejected without an oracle call
C22_OracleCallsAfterRead ==
    pc = "done" =>
        /\ gen.items_ok =>
              /\ gen.calls \in 1..(1 + max_reasks)
              /\ gen.calls = 1 + Len(gen.reasks)
              /\ \A i \in 1..Len(gen.reasks) : gen.reasks[i].missing # <<>>
              /\ gen.filled < Fillable => gen.calls = 1 + max_reasks
        /\ ~gen.items_ok => gen.calls = 0 /\ gen.kind = "rejected"
        /\ gen.kind \in {"complete", "partial", "rejected"}

\* An attempt that filled its last category in a re-ask and asked no further
C22_Witness ==
    /\ pc = "done"
    /\ gen.items_ok
    /\ gen.kind = "complete"
    /\ gen.calls = 2

(***************************************************************************)
(* How often a rotation generates                                          *)
(***************************************************************************)
\* C23: a category rotation calls generate_block at most max_retries times
\* and stops at the first call that returns a block; a discovery rotation
\* runs the discovery pipeline once and does not run it again, whatever it
\* reports
C23_GenerationAttempts ==
    [][/\ pc = "regen" =>
             /\ loc.poging < max_retries
             /\ gen'.block # <<>> => pc' = "idle"
             /\ (gen'.block = <<>> /\ loc.poging + 1 < max_retries) =>
                    pc' = "regen" /\ loc'.poging = loc.poging + 1
             /\ (gen'.block = <<>> /\ loc.poging + 1 = max_retries) => pc' = "idle"
       /\ pc = "dscan" => pc' = "dgen"
       /\ pc = "dgen" => pc' = IF gen'.block = <<>> THEN "idle" ELSE "drotate"
       /\ pc = "drotate" => pc' = "idle"]_vars

\* Two attempts of a category rotation have failed, the third is to come
C23_Witness == pc = "regen" /\ loc.poging = max_retries - 1

\* The line just processed was accepted
LineAccepted == LineProcessed /\ gen.ctx.filled # gen.before.filled

\* How often a performer is in History, in the live list and among the
\* entries accepted so far
Usage(artiest) ==
    Cardinality({i \in 1..Len(historie) : historie[i].artiest = artiest})
        + Cardinality({i \in 1..Len(playlist) : ArtistOf(playlist[i].uri) = artiest})
        + Cardinality({c \in DOMAIN gen.ctx.filled : gen.ctx.filled[c].artiest = artiest})

C25_LineFrame ==
    LineProcessed =>
        /\ \A c \in DOMAIN gen.before.filled :
              c \in DOMAIN gen.ctx.filled /\ gen.ctx.filled[c] = gen.before.filled[c]
        /\ (LineCategory = NoCategory \/ FirstFailure # "none") =>
              /\ gen.ctx.filled = gen.before.filled
              /\ gen.ctx.used_uris = gen.before.used_uris
              /\ gen.ctx.artist_counts = gen.before.artist_counts
        /\ (LineCategory # NoCategory /\ FirstFailure = "none") =>
              /\ LineCategory \notin DOMAIN gen.before.filled
              /\ DOMAIN gen.ctx.filled = DOMAIN gen.before.filled \cup {LineCategory}
              /\ gen.ctx.filled[LineCategory] =
                    Entry(LineCategory, LineArtist, LineTitle, LineFound.uri)
              /\ LineFound.uri \notin gen.before.used_uris
              /\ gen.ctx.used_uris = gen.before.used_uris \cup {LineFound.uri}
              /\ gen.ctx.artist_counts =
                    [gen.before.artist_counts EXCEPT ![LineArtist] = @ + 1]

\* A valid line labelled with a category that an earlier line has filled
C25_Witness ==
    /\ LineProcessed
    /\ gen.line[1] \in DOMAIN gen.before.filled
    /\ ~Unresolved /\ ~AlreadyUsed /\ ~AtQuota
    /\ gen.ctx.filled = gen.before.filled

(***************************************************************************)
(* What a re-ask passes to the oracle                                      *)
(***************************************************************************)
\* The reasons a re-ask has on record for a category, and those it quotes
RecordedFor(ask, cat) == IF cat \in DOMAIN ask.recorded THEN ask.recorded[cat] ELSE <<>>
QuotedFor(ask, cat) == IF cat \in DOMAIN ask.skipped THEN ask.skipped[cat] ELSE <<>>

\* Round 1 is one line for a decade category, and only the era check fails it
EraOnlyRound ==
    /\ gen.items_ok
    /\ historie = <<>>
    /\ wl.max_per_artiest = 0
    /\ Len(gen.script[1]) = 1
    /\ gen.script[1][1][1] \in Range(wl.categorieen)
    /\ gen.script[1][1][3] \in 1..NumSuggested
    /\ ~validate_decade(ReleaseOf(gen.script[1][1][3]),
                        _extract_decade(gen.script[1][1][1]))

\* What every re-ask has right whatever it quotes: the categories it names
\* are the unfilled ones, the forbidden performers are those at the maximum
\* by the current counters, no recorded reason is lost between re-asks
ReaskNamesAndForbids ==
    /\ \A i \in 1..Len(gen.reasks) :
          /\ gen.reasks[i].missing =
                SelectSeqBy(wl.categorieen, Range(wl.categorieen) \ gen.reasks[i].filled)
          /\ gen.reasks[i].blocked =
                IF wl.max_per_artiest > 0
                THEN {a \in DOMAIN gen.reasks[i].counts :
                         gen.reasks[i].counts[a] >= wl.max_per_artiest}
                ELSE {}
          /\ i > 1 => \A c \in Range(wl.categorieen) :
                         IsPrefixOf(RecordedFor(gen.reasks[i - 1], c),
                                    RecordedFor(gen.reasks[i], c))
    /\ EraOnlyRound =>
          /\ gen.reasks # <<>>
          /\ gen.script[1][1][1] \in Range(gen.reasks[1].missing)
          /\ QuotedFor(gen.reasks[1], gen.script[1][1][1]) =
                <<[artiest |-> gen.script[1][1][2], titel |-> gen.script[1][1][3],
                   reden |-> "decade mismatch"]>>

\* C26 as stated: every re-ask names the categories still unfilled, quotes
\* for each of them all the reasons recorded for it in the earlier rounds,
\* and passes the forbidden performers by the current counters; a category
\* whose only line failed the era check in round 1 is in the first re-ask
\* with its decade-mismatch reason
C26_ReaskPassesAllReasons ==
    pc = "done" =>
        /\ ReaskNamesAndForbids
        /\ \A i \in 1..Len(gen.reasks) :
              \A c \in Range(gen.reasks[i].missing) :
                 QuotedFor(gen.reasks[i], c) = RecordedFor(gen.reasks[i], c)

\* C26, amended: as stated, but of the reasons recorded for a category the
\* re-ask quotes the first ReasonsPerCategory
C26_ReaskPassesFirstReasons ==
    pc = "done" =>
        /\ ReaskNamesAndForbids
        /\ \A i \in 1..Len(gen.reasks) :
              \A c \in Range(gen.reasks[i].missing) :
                 QuotedFor(gen.reasks[i], c) =
                    Take(RecordedFor(gen.reasks[i], c), ReasonsPerCategory)

\* A second re-ask for a category that has more reasons on record than the
\* prompt quotes
C26_Witness ==
    /\ pc = "done"
    /\ Len(gen.reasks) = 2
    /\ \E c \in Range(gen.reasks[2].missing) :
          Len(RecordedFor(gen.reasks[2], c)) > ReasonsPerCategory

(***************************************************************************)
(* Category matching                                                       *)
(***************************************************************************)
\* The label of the line, lower-cased, and without a leading numbering
LineLabel == Lower(gen.line[1])
LineLabelClean == StripNumbering(LineLabel)

UnfilledAt == {i \in 1..Len(wl.categorieen) : wl.categorieen[i] \notin DOMAIN gen.before.filled}

\* The unfilled categories equal to the label, and those in a substring
\* relation with it
ExactHits == {i \in UnfilledAt : Lower(wl.categorieen[i]) \in {LineLabel, LineLabelClean}}
SubstringHits ==
    {i \in UnfilledAt :
        /\ LineLabelClean # <<>>
        /\ \/ Contains(LineLabelClean, Lower(wl.categorieen[i]))
           \/ Contains(Lower(wl.categorieen[i]), LineLabelClean)}

FirstOf(hits) == wl.categorieen[CHOOSE i \in hits : \A j \in hits : i <= j]

\* C27: the match is the first unfilled category equal to the label when
\* there is one, else the first unfilled category in a substring relation
\* with it, else nothing; an empty label matches nothing and a filled
\* category is never the match
C27_ExactBeforeSubstring ==
    LineProcessed =>
        /\ LineCategory \notin DOMAIN gen.before.filled
        /\ LineCategory =
              IF ExactHits # {} THEN FirstOf(ExactHits)
              ELSE IF SubstringHits # {} THEN FirstOf(SubstringHits)
              ELSE NoCategory

(***************************************************************************)
(* The era check                                                           *)
(***************************************************************************)
\* The line got as far as the era check
ReachedEraCheck ==
    LineProcessed /\ LineCategory # NoCategory /\ ~AtQuota /\ ~Unresolved /\ ~AlreadyUsed

\* The decade of a release date can be derived
Derivable(release_date) == release_date # <<>> /\ release_date[1] >= 0

\* The line was skipped for its decade
SkippedForEra ==
    /\ ~LineAccepted
    /\ ReasonsFor(gen.ctx, LineCategory) # ReasonsFor(gen.before, LineCategory)
    /\ ReasonsFor(gen.ctx, LineCategory)[Len(ReasonsFor(gen.ctx, LineCategory))].reden
          = "decade mismatch"

\* C28: a line that reaches the era check is rejected iff its category
\* starts with a decade token, the decade of its release date can be derived
\* and differs from the token; otherwise it is accepted.  Every entry
\* accepted under a decade category has that decade or none derivable
C28_EraCheck ==
    /\ ReachedEraCheck =>
          /\ SkippedForEra <=>
                /\ _extract_decade(LineCategory) # None
                /\ Derivable(LineFound.release_date)
                /\ DecadeOfYear(LineFound.release_date[1]) # _extract_decade(LineCategory)
          /\ LineAccepted <=> ~SkippedForEra
    /\ gen.kind = "pipeline" =>
          \A c \in DOMAIN gen.ctx.filled :
             (_extract_decade(c) # None /\ Derivable(ReleaseOf(gen.ctx.filled[c].uri))) =>
                 DecadeOfYear(ReleaseOf(gen.ctx.filled[c].uri)[1]) = _extract_decade(c)

\* A track without a readable release date accepted under a decade category
C28_Witness ==
    /\ LineAccepted
    /\ _extract_decade(LineCategory) # None
    /\ ~Derivable(LineFound.release_date)

(***************************************************************************)
(* The order of rank_and_select's output                                   *)
(***************************************************************************)
\* The overlap that counts for a track: above MaxOverlapBonus it is
\* MaxOverlapBonus
CountedOverlap(track) ==
    IF track.overlap > MaxOverlapBonus THEN MaxOverlapBonus ELSE track.overlap

\* tasteScore * 0.7 + counted overlap * 2 * 0.3 of a selected track, times 10,
\* from the scores and the candidates rank_and_select was given
ExpectedScore(track) ==
    TasteScore(PlaceOf(track)) * 7 + CountedOverlap(loc.candidates[PlaceOf(track)]) * 6

\* C29: every selected track carries the combined score
\* tasteScore * 0.7 + min(overlap, 5) * 2 * 0.3; the selection is in
\* non-increasing order of that score, and two selected tracks of equal
\* score are in the order of the scan
C29_RankedByCombinedScore ==
    pc = "done" =>
        /\ \A i \in 1..Len(gen.selected) :
              gen.selected[i].combined_score = ExpectedScore(gen.selected[i])
        /\ \A i, j \in 1..Len(gen.selected) :
              i < j =>
                /\ ExpectedScore(gen.selected[i]) >= ExpectedScore(gen.selected[j])
                /\ ExpectedScore(gen.selected[i]) = ExpectedScore(gen.selected[j])
                      => PlaceOf(gen.selected[i]) < PlaceOf(gen.selected[j])

\* A track at the counted maximum is selected before a later track of the
\* same taste score that more sources hold
C29_Witness ==
    /\ pc = "done"
    /\ \E i, j \in 1..Len(gen.selected) :
          /\ i < j
          /\ gen.selected[i].overlap = MaxOverlapBonus
          /\ gen.selected[j].overlap > MaxOverlapBonus
          /\ gen.selected[i].smaak_score = gen.selected[j].smaak_score

(***************************************************************************)
(* The size of rank_and_select's output                                    *)
(***************************************************************************)
\* The score of the candidate at place p, as rank_and_select computes it
ScoreAt(p) == TasteScore(p) * 7 + CountedOverlap(loc.candidates[p]) * 6

\* The candidate at place p is ranked before the one at place q
RankedBefore(p, q) ==
    \/ ScoreAt(p) > ScoreAt(q)
    \/ ScoreAt(p) = ScoreAt(q) /\ p < q

SelectedPlaces == {PlaceOf(gen.selected[i]) : i \in 1..Len(gen.selected)}

\* The selected candidates that were ranked before place p
ChosenBefore(p) == {q \in SelectedPlaces : RankedBefore(q, p)}

\* How many candidates can be selected when no performer may be selected
\* more than max_per_artiest times
Admissible ==
    IF wl.max_per_artiest = 0 THEN Len(loc.candidates)
    ELSE LET of(a) == Cardinality({p \in 1..Len(loc.candidates) :
                                      loc.candidates[p].artiest = a})
             RECURSIVE Sum(_)
             Sum(as) == IF as = {} THEN 0
                        ELSE LET a == CHOOSE x \in as : TRUE
                             IN  Min(of(a), wl.max_per_artiest) + Sum(as \ {a})
         IN  Sum(Artists)

\* C30: rank_and_select returns at most count tracks; a candidate is left out
\* only if, when it was reached in ranked order, its performer had
\* max_per_artiest selected tracks (max_per_artiest > 0) or count tracks were
\* selected; the selection has min(count, admissible candidates) tracks
C30_SelectionSize ==
    pc = "done" =>
        /\ Len(gen.selected) <= wl.blok_grootte
        /\ \A p \in (1..Len(loc.candidates)) \ SelectedPlaces :
              \/ /\ wl.max_per_artiest > 0
                 /\ Cardinality({q \in ChosenBefore(p) :
                        loc.candidates[q].artiest = loc.candidates[p].artiest})
                       >= wl.max_per_artiest
              \/ Cardinality(ChosenBefore(p)) >= wl.blok_grootte
        /\ Len(gen.selected) = Min(wl.blok_grootte, Admissible)

(***************************************************************************)
(* The exclusion filter of the discovery pipeline                          *)
(***************************************************************************)
\* C31: no entry of a block generate_discovery_block returns has an
\* identifier that is in History, in the live list or in the Queue as they
\* are when the pipeline runs, whatever the read of the live list returns
C31_ExclusionFilter ==
    [][pc = "dgen" =>
          \A i \in 1..Len(gen'.block) :
              gen'.block[i].uri \notin HistoryIds \cup LiveIds \cup QueueIds]_vars

(***************************************************************************)
(* Scoring in batches: candidate lists around BatchSize, one answer of the *)
(* oracle for each batch                                                   *)
(***************************************************************************)
ScoreOver == 2

\* What the scan of one source that lists n different tracks returns
LongScan(n) ==
    [i \in 1..n |-> [artiest |-> ArtistOf(i), titel |-> i, release_date |-> ReleaseOf(i),
                     uri |-> i, overlap |-> 1, bronnen |-> <<1>>]]

ScoreConfigs ==
    [type : {"discovery"}, categorieen : {<<>>}, blok_grootte : {1},
     max_per_artiest : {0}, aantal_blokken : {1},
     bron_playlists : {<<1>>}, smaakprofiel : {TRUE}, stale_age_days : {max_days}]

\* gen.answers is what the oracle will answer, batch by batch
ScoreInit ==
    /\ wl \in ScoreConfigs
    /\ playlist = <<>>
    /\ historie = <<>>
    /\ wachtrij = [exists |-> FALSE, lines |-> <<>>]
    /\ now = Today
    /\ ticks = 0
    /\ faults = 0
    /\ pc = "idle"
    /\ \E n \in (BatchSize - 1)..(BatchSize + ScoreOver) :
          loc = [NoLoc EXCEPT !.candidates = LongScan(n)]
    /\ result = NoResult
    /\ pre = NoPre
    /\ \E answers \in [1..2 -> ScoringAnswers] :
          gen = [kind |-> "none", total |-> 0, filled |-> 0, block |-> <<>>,
                 answers |-> answers]
    /\ runs = <<>>

\* generate_discovery_block, step 3: the score map handed to rank_and_select
ScoreOnce ==
    /\ pc = "idle"
    /\ \E all_scores \in {ScoreBatches(loc.candidates, gen.answers, 0, <<>>)} :
         gen' = [kind |-> "scored", total |-> Len(loc.candidates),
                 filled |-> 0, block |-> <<>>, scores |-> all_scores,
                 answers |-> gen.answers]
    /\ pc' = "done"
    /\ UNCHANGED <<wl, playlist, historie, wachtrij, now, ticks, faults, loc, result, pre,
                   runs>>

ScoreSpec == ScoreInit /\ [][ScoreOnce]_vars

\* The batch of the candidate at global place p, and its place in that batch
BatchOf(p) == ((p - 1) \div BatchSize) + 1
PlaceInBatch(p) == ((p - 1) % BatchSize) + 1

\* The score the candidate at place p is ranked with
RankedScore(p) == TasteScore(p)

\* C32: scoring ends with a score map whatever the oracle did; the candidate
\* at global place p is ranked with the score the oracle gave for its place
\* in its batch of BatchSize, with NeutralScore when the oracle failed for
\* that batch or gave no score for that place
C32_BatchScores ==
    pc = "done" /\ gen.kind = "scored" =>
        /\ DOMAIN gen.scores \subseteq 1..Len(loc.candidates)
        /\ \A p \in 1..Len(loc.candidates) :
              RankedScore(p) =
                 IF gen.answers[BatchOf(p)] = ScoringFailed THEN NeutralScore
                 ELSE IF PlaceInBatch(p) \in DOMAIN gen.answers[BatchOf(p)]
                 THEN gen.answers[BatchOf(p)][PlaceInBatch(p)]
                 ELSE NeutralScore

\* The oracle failed for the first batch and scored the second
C32_Witness ==
    /\ pc = "done"
    /\ gen.kind = "scored"
    /\ Len(loc.candidates) > BatchSize
    /\ gen.answers[1] = ScoringFailed
    /\ gen.answers[2] # ScoringFailed
    /\ RankedScore(BatchSize + 1) = gen.answers[2][1]
    /\ RankedScore(BatchSize + 1) # NeutralScore
    /\ RankedScore(1) = NeutralScore

(***************************************************************************)
(* rotate_playlist on its own: a live list whose members carry any kind of *)
(* timestamp, a Queue of one or two new tracks, one rotation               *)
(***************************************************************************)
RotLen == 3

\* Two known timestamps and the three ways in which one can be unknown
RotTimes == {Today - LongStaleAge, Today - TickDays, NoTime, NullTime, EmptyTime}

\* Live lists of up to RotLen different tracks
RotLiveLists ==
    {pl \in SeqsUpTo([uri : 1..RotLen, added_at : RotTimes], RotLen) :
        IsDistinct(UrisOf(pl))}

\* A Queue file holding tracks that are not live
RotQueues ==
    {WriteLines([i \in 1..n |->
                    Entry(<<"discovery">>, ArtistOf(RotLen + i), RotLen + i, RotLen + i)]) :
        n \in 1..2}

RotConfigs ==
    [type : {"categorie", "discovery"}, categorieen : {<< <<"pop">> >>},
     blok_grootte : {1}, max_per_artiest : {0}, aantal_blokken : {1},
     bron_playlists : {<<1>>}, smaakprofiel : {TRUE}, stale_age_days : {max_days}]

RotInit ==
    /\ wl \in RotConfigs
    /\ playlist \in RotLiveLists
    /\ historie = <<>>
    /\ wachtrij \in RotQueues
    /\ Fresh

\* rotate_playlist, by position for a category list and by age for a
\* discovery list
RotateOnce ==
    /\ pc = "idle"
    /\ \E r \in {rotate_playlist(playlist, wachtrij, historie, wl.type = "discovery",
                                 now, "none")} :
         /\ playlist' = r.playlist
         /\ historie' = r.historie
         /\ wachtrij' = r.wachtrij
         /\ pre' = Snapshot(wl.type = "discovery")
         /\ result' = RotateResult(r)
    /\ pc' = "done"
    /\ UNCHANGED <<wl, now, ticks, faults, loc, gen, runs>>

RotSpec == RotInit /\ [][RotateOnce]_vars

\* The places of the live list, as it was, whose members the rotation evicted
EvictedPlaces ==
    {i \in 1..Len(pre.playlist) :
        \A j \in 1..Len(Survivors) : Survivors[j].uri # pre.playlist[i].uri}

StayedPlaces == (1..Len(pre.playlist)) \ EvictedPlaces

\* C33: a discovery rotation evicts min(|Queue|, |live list|) members; no
\* member is evicted while a member with an older known timestamp stays, and
\* no member without a known timestamp is evicted while a member with a
\* known timestamp stays
C33_OldestEvictedFirst ==
    (Rotated /\ pre.sort_by_age /\ result.status = "ok") =>
        /\ Cardinality(EvictedPlaces) = Min(Len(PreQueueUris), Len(pre.playlist))
        /\ \A i \in EvictedPlaces, j \in StayedPlaces :
              /\ (Known(pre.playlist[i]) /\ Known(pre.playlist[j])) =>
                     pre.playlist[i].added_at <= pre.playlist[j].added_at
              /\ Known(pre.playlist[j]) => Known(pre.playlist[i])

\* C34: a category rotation evicts exactly the members at the first
\* min(|Queue|, |live list|) positions of the live list as it was
C34_PrefixEvicted ==
    (Rotated /\ ~pre.sort_by_age /\ result.status = "ok") =>
        EvictedPlaces = 1..Min(Len(PreQueueUris), Len(pre.playlist))

(***************************************************************************)
(* The recency filter on its own: one source, scanned on a day on which a  *)
(* release is just inside or just outside the lookback window              *)
(***************************************************************************)
RecLen == 2

\* The first day a release date stands for
FirstDayOf(release_date) ==
    DaysFromCivil(release_date[1],
                  IF Len(release_date) >= 2 THEN release_date[2] ELSE 1,
                  IF Len(release_date) >= 3 THEN release_date[3] ELSE 1)

\* The days on which the release of some track is RecentDays - 1 or
\* RecentDays days old
RecDays ==
    {FirstDayOf(ReleaseOf(t)) + RecentDays - k : t \in Tracks, k \in 0..1}

\* What the source lists: up to RecLen different tracks, with or without a
\* readable release date
RecListings ==
    {s \in SeqsUpTo(Tracks \cup {Undated, Misdated}, RecLen) : s # <<>> /\ IsDistinct(s)}

RecInit ==
    /\ wl \in ScoreConfigs
    /\ playlist = <<>>
    /\ historie = <<>>
    /\ wachtrij = [exists |-> FALSE, lines |-> <<>>]
    /\ now \in RecDays
    /\ ticks = 0
    /\ faults = 0
    /\ pc = "idle"
    /\ \E s \in RecListings :
          loc = [NoLoc EXCEPT !.candidates = scan_source_playlists(wl.bron_playlists, <<s>>)]
    /\ result = NoResult
    /\ pre = NoPre
    /\ gen = NoGen
    /\ runs = <<>>

\* generate_discovery_block, step 2: gen.block keeps what was scanned,
\* loc.candidates becomes what is passed to scoring
FilterOnce ==
    /\ pc = "idle"
    /\ gen' = [kind |-> "filtered", total |-> Len(loc.candidates), filled |-> 0,
               block |-> loc.candidates]
    /\ loc' = [loc EXCEPT !.candidates = DiscoveryCandidates(loc.candidates, {}, now)]
    /\ pc' = "done"
    /\ UNCHANGED <<wl, playlist, historie, wachtrij, now, ticks, faults, result, pre, runs>>

RecSpec == RecInit /\ [][FilterOnce]_vars

\* C35: every candidate passed to scoring has a release date with a readable
\* year, and the first day that date stands for (1 January of a year, the
\* first of a year and month) is less than RecentDays days before today
C35_OnlyRecentScored ==
    pc = "done" /\ gen.kind = "filtered" =>
        \A i \in 1..Len(loc.candidates) :
            /\ Derivable(loc.candidates[i].release_date)
            /\ now - FirstDayOf(loc.candidates[i].release_date) < RecentDays

\* A track dated by its year alone passes on the last day of its window,
\* next to a track without a readable date that is dropped
C35_Witness ==
    /\ pc = "done"
    /\ gen.kind = "filtered"
    /\ \E i \in 1..Len(loc.candidates) :
          /\ Len(loc.candidates[i].release_date) = 1
          /\ now - FirstDayOf(loc.candidates[i].release_date) = RecentDays - 1
    /\ \E j \in 1..Len(gen.block) : ~Derivable(gen.block[j].release_date)

(***************************************************************************)
(* The order of the steps of one trigger                                   *)
(***************************************************************************)
\* A step of the category flow: generation starts only after a rotation that
\* consumed the Queue has returned, it leaves live list and History alone,
\* and the block it returns is written to the Queue as the trigger ends
CategoryStepOrder ==
    /\ pc' = "regen" /\ pc # "regen" =>
           /\ pc = "idle"
           /\ gen' = NoGen
           /\ Rotated' /\ result'.status = "ok"
           /\ pre'.wachtrij = wachtrij /\ QueueIds # {}
           /\ QueueIds' = {}
    /\ pc = "regen" =>
           /\ playlist' = playlist /\ historie' = historie
           /\ gen'.block # <<>> => (wachtrij' = WriteLines(gen'.block) /\ pc' = "idle")
           /\ gen'.block = <<>> => wachtrij' = wachtrij

\* A step of the discovery flow: count, scan and generation follow each other
\* without touching live list or History, the block is in the Queue when the
\* rotation starts, and a rotation that returns has consumed that block
DiscoveryStepOrder ==
    /\ pc' = "dscan" => pc = "idle"
    /\ pc' = "dgen" => pc = "dscan"
    /\ pc' = "drotate" => pc = "dgen" /\ gen'.block # <<>> /\ wachtrij' = WriteLines(gen'.block)
    /\ pc \in {"dscan", "dgen"} => (playlist' = playlist /\ historie' = historie)
    /\ pc = "dscan" => wachtrij' = wachtrij
    /\ pc = "drotate" =>
           /\ pc' = "idle" /\ Rotated'
           /\ pre'.wachtrij = WriteLines(gen.block)
           /\ result'.status = "ok" => QueueIds' = {}

\* C36: in category mode the rotation has consumed the Queue before block
\* generation starts and the generated block becomes the Queue; in
\* discovery mode the count and the generation are over and the Queue is
\* written before the rotation starts, and the rotation consumes that block
C36_StepOrder ==
    [][(wl.type = "categorie" => CategoryStepOrder)
         /\ (wl.type = "discovery" => DiscoveryStepOrder)]_vars

\* A discovery trigger has returned: the block it generated was rotated into
\* the live list and the Queue is empty
C36_Witness ==
    /\ pc = "idle"
    /\ wl.type = "discovery"
    /\ Rotated /\ result.status = "ok" /\ result.nieuw_blok
    /\ pre.wachtrij = WriteLines(gen.block)
    /\ Range(UrisOf(gen.block)) \subseteq LiveIds
    /\ QueueIds = {}

(***************************************************************************)
(* Triggers on an empty Queue (category mode)                              *)
(***************************************************************************)
\* rotate_and_regenerate is invoked in this step
TriggerStep == pc = "idle" /\ Rotated' /\ result'.op = "rotate"

\* C37: in category mode a trigger that finds the Queue empty returns the
\* status for empty without attempting a generation and leaves Queue,
\* History and live list unchanged; a regeneration that ends without a block
\* leaves the Queue empty, so that every later trigger is such a no-op
C37_EmptyQueueAbsorbing ==
    [][wl.type = "categorie" =>
          /\ (TriggerStep /\ QueueIds = {}) =>
                 /\ pc' = "idle"
                 /\ result'.status = "leeg"
                 /\ gen' = NoGen
                 /\ wachtrij' = wachtrij /\ historie' = historie /\ playlist' = playlist
          /\ (pc = "regen" /\ pc' = "idle" /\ gen'.block = <<>>) =>
                 /\ loc.poging = max_retries - 1
                 /\ QueueIds' = {}]_vars

\* A trigger has found the Queue file that an earlier rotation emptied and
\* that no generation has filled since
C37_Witness ==
    /\ wl.type = "categorie"
    /\ pc = "idle"
    /\ Rotated
    /\ result.status = "leeg"
    /\ pre.wachtrij = [exists |-> TRUE, lines |-> <<>>]
    /\ wachtrij = pre.wachtrij
    /\ gen = NoGen

(***************************************************************************)
(* The background tasks of web.py: api_roteren, api_wachtrij_genereer and  *)
(* api_vullen.  Here runs is the _tasks dictionary, one entry per request, *)
(* and step is the position of the task's run() function.                  *)
(***************************************************************************)
TaskKinds == {"roteren", "wachtrij", "vullen"}

\* _tasks[task_id] = {"status": "bezig", ...}
NewTask(kind) == [kind |-> kind, status |-> "bezig", step |-> "run"]

\* The run() of the last task has not ended
TaskOpen == runs # <<>> /\ runs[Len(runs)].step # "end"

\* The operation the task calls has returned or raised
TaskReturned == pc = "idle" /\ result.op # "none"

\* The request handlers: the entry is created, then the thread is started.
\* A queue generation starts at the retry loop around generate_block or at
\* the scan of generate_discovery_block
StartTask ==
    /\ pc = "idle"
    /\ ~TaskOpen
    /\ Len(runs) < MaxRuns
    /\ \E kind \in TaskKinds :
         /\ runs' = Append(runs, NewTask(kind))
         /\ pc' = IF kind # "wachtrij" THEN "idle"
                  ELSE IF wl.type = "discovery" THEN "dscan" ELSE "regen"
    /\ result' = NoResult
    /\ loc' = NoLoc
    /\ gen' = NoGen
    /\ pre' = NoPre
    /\ UNCHANGED <<wl, playlist, historie, wachtrij, now, ticks, faults>>

\* api_wachtrij_genereer, discovery list: generate_discovery_block with the
\* configured block size, and _write_queue when there is a block
QueueGenerateDiscovery ==
    /\ pc = "dgen"
    /\ \E block \in {BlockOf(loc.candidates, wl.blok_grootte, wl, <<a>>) :
                        a \in ScoringAnswers} :
         /\ gen' = [kind |-> IF block = <<>> THEN "rejected" ELSE "complete",
                    total |-> wl.blok_grootte, filled |-> Len(block), block |-> block]
         /\ wachtrij' = QueueAfterGeneration(block, wachtrij)
         /\ result' = [NoResult EXCEPT !.op = "regenerate",
                                       !.status = IF block = <<>> THEN "fout" ELSE "ok",
                                       !.nieuw_blok = (block # <<>>)]
    /\ pc' = "idle"
    /\ loc' = NoLoc
    /\ UNCHANGED <<wl, faults, playlist, historie, now, ticks, pre, runs>>

\* The call inside the try block of run()
TaskRun ==
    /\ TaskOpen
    /\ runs[Len(runs)].step = "run"
    /\ ~TaskReturned
    /\ \/ /\ runs[Len(runs)].kind = "roteren"
          /\ \/ RotateCategory
             \/ RegenAttempt
             \/ DiscoveryCount
             \/ DiscoveryScan
             \/ DiscoveryGenerate
             \/ DiscoveryRotate
       \/ /\ runs[Len(runs)].kind = "wachtrij"
          /\ \/ RegenAttempt
             \/ DiscoveryScan
             \/ QueueGenerateDiscovery
       \/ /\ runs[Len(runs)].kind = "vullen"
          /\ \/ StartFill
             \/ FillAttempt
             \/ FillScan
             \/ FillDiscovery

\* The status run() sets when the call is over: "fout" in the except branch
\* and when no block was generated, "klaar" otherwise.  api_roteren goes on
\* inside the try block after it has set "klaar"
TaskSetStatus ==
    /\ TaskOpen
    /\ runs[Len(runs)].step = "run"
    /\ TaskReturned
    /\ LET task == runs[Len(runs)]
           failed == \/ result.status = "exception"
                     \/ task.kind = "wachtrij" /\ ~result.nieuw_blok
       IN  runs' = [runs EXCEPT ![Len(runs)] =
                       [kind |-> task.kind,
                        status |-> IF failed THEN "fout" ELSE "klaar",
                        step |-> IF task.kind = "roteren" /\ ~failed THEN "after"
                                 ELSE "end"]]
    /\ UNCHANGED <<wl, playlist, historie, wachtrij, now, ticks, faults, pc, loc, result,
                   pre, gen>>

\* api_roteren after "klaar": load_wissellijsten, save_wissellijsten and
\* send_rotation_mail, still inside the try block; raised is whether one of
\* them raises
TaskAfterRotation ==
    /\ TaskOpen
    /\ runs[Len(runs)].step = "after"
    /\ \E raised \in BOOLEAN :
         runs' = [runs EXCEPT ![Len(runs)].status = IF raised THEN "fout" ELSE @,
                              ![Len(runs)].step = "end"]
    /\ UNCHANGED <<wl, playlist, historie, wachtrij, now, ticks, faults, pc, loc, result,
                   pre, gen>>

TaskNext == StartTask \/ TaskRun \/ TaskSetStatus \/ TaskAfterRotation

TaskSpec == AuditInit /\ [][TaskNext]_vars

\* C38: a task starts as "bezig", and once its status is "klaar" or "fout" it
\* keeps that status
C38_StatusMonotone ==
    [][/\ Len(runs') > Len(runs) => runs'[Len(runs')].status = "bezig"
       /\ \A i \in 1..Len(runs) :
             runs[i].status \in {"klaar", "fout"} => runs'[i].status = runs[i].status]_vars

(***************************************************************************)
(* Queue and History lines as text.  A text is a sequence of characters;   *)
(* "a" stands for any character that is neither a blank nor a hyphen, and  *)
(* an identifier is the token "spotify:" followed by such characters.      *)
(***************************************************************************)
FieldLen == 5

Chars == {"a", " ", "-"}

Whitespace == {" ", "\n"}

Separator == <<" ", "-", " ">>

UriText(uri) == <<"spotify:">> \o [i \in 1..uri |-> "a"]

\* f"{t['categorie']} - {t['artiest']} - {t['titel']} - {t['uri']}\n"
FormatLine(t) ==
    t.categorie \o Separator \o t.artiest \o Separator \o t.titel \o Separator
        \o t.uri \o <<"\n">>

RECURSIVE LStrip(_)
LStrip(text) ==
    IF text # <<>> /\ Head(text) \in Whitespace THEN LStrip(Tail(text)) ELSE text

RECURSIVE RStrip(_)
RStrip(text) ==
    IF text # <<>> /\ text[Len(text)] \in Whitespace
    THEN RStrip(SubSeq(text, 1, Len(text) - 1))
    ELSE text

\* str.strip()
Strip(text) == RStrip(LStrip(text))

\* The places where sep starts in text
SeparatorPlaces(text, sep) ==
    {i \in 1..(Len(text) - Len(sep) + 1) : SubSeq(text, i, i + Len(sep) - 1) = sep}

\* str.rsplit(sep, 1)
RSplitOnce(text, sep) ==
    LET found == SeparatorPlaces(text, sep)
    IN  IF found = {} THEN <<text>>
        ELSE LET i == CHOOSE j \in found : \A k \in found : k <= j
             IN  <<SubSeq(text, 1, i - 1), SubSeq(text, i + Len(sep), Len(text))>>

\* str.split(sep, maxsplit)
RECURSIVE Split(_, _, _)
Split(text, sep, maxsplit) ==
    LET found == SeparatorPlaces(text, sep)
    IN  IF maxsplit = 0 \/ found = {} THEN <<text>>
        ELSE LET i == CHOOSE j \in found : \A k \in found : j <= k
             IN  <<SubSeq(text, 1, i - 1)>>
                     \o Split(SubSeq(text, i + Len(sep), Len(text)), sep, maxsplit - 1)

\* str.startswith("spotify:")
StartsWithSpotify(text) == text # <<>> /\ Head(text) = "spotify:"

_parse_history_line(line) ==
    LET stripped == Strip(line)
        parts    == RSplitOnce(stripped, Separator)
    IN  IF stripped = <<>> THEN None
        ELSE IF Len(parts) < 2 \/ ~StartsWithSpotify(parts[2]) THEN None
        ELSE LET left_parts == Split(parts[1], Separator, 2)
             IN  IF Len(left_parts) < 3 THEN None
                 ELSE Entry(Strip(left_parts[1]), Strip(left_parts[2]),
                            Strip(left_parts[3]), Strip(parts[2]))

\* Texts of 1..n characters
TextsUpTo(n) == UNION {[1..k -> Chars] : k \in 1..n}

\* A plain text and one that holds the separator
SampleTexts == {<<"a">>, <<"a">> \o Separator \o <<"a">>}

\* Entries of which the category or the performer is any text of up to
\* FieldLen characters and the other fields are sample texts
LineEntries ==
    {Entry(c, a, t, UriText(1)) :
        c \in TextsUpTo(FieldLen), a \in SampleTexts, t \in SampleTexts}
    \cup {Entry(c, a, t, UriText(1)) :
        c \in SampleTexts, a \in TextsUpTo(FieldLen), t \in SampleTexts}

LineInit ==
    /\ wl \in ConcConfigs
    /\ playlist = <<>>
    /\ historie = <<>>
    /\ wachtrij = [exists |-> FALSE, lines |-> <<>>]
    /\ now = Today
    /\ ticks = 0
    /\ faults = 0
    /\ pc = "write"
    /\ \E t \in LineEntries : loc = [NoLoc EXCEPT !.candidates = <<t>>]
    /\ result = NoResult
    /\ pre = NoPre
    /\ gen = NoGen
    /\ runs = <<>>

\* rotate_and_regenerate: the block is written to the queue file
WriteQueueLines ==
    /\ pc = "write"
    /\ wachtrij' = [exists |-> TRUE,
                    lines  |-> [i \in 1..Len(loc.candidates) |-> FormatLine(loc.candidates[i])]]
    /\ pc' = "parse"
    /\ UNCHANGED <<wl, playlist, historie, now, ticks, faults, loc, result, pre, gen, runs>>

\* rotate_playlist: every line of the queue file is parsed
ParseQueueLines ==
    /\ pc = "parse"
    /\ gen' = [kind |-> "parsed", total |-> Len(wachtrij.lines), filled |-> 0,
               block |-> [i \in 1..Len(wachtrij.lines) |->
                             _parse_history_line(wachtrij.lines[i])]]
    /\ pc' = "done"
    /\ UNCHANGED <<wl, playlist, historie, wachtrij, now, ticks, faults, loc, result, pre, runs>>

LineNext == WriteQueueLines \/ ParseQueueLines

LineSpec == LineInit /\ [][LineNext]_vars

\* C39: an Entry written to a Queue or History line and parsed back is the
\* same Entry: same category, performer, title and identifier, also when
\* category or performer hold the field separator.
C39_RoundTrip ==
    pc = "done" => gen.block = loc.candidates

====
